---- MODULE Spec2Model ----
(***************************************************************************)
(* The fetch / dedupe / store pipeline of substack-tracker.                *)
(*                                                                         *)
(* Two implementations of the pipeline live in the repository:             *)
(*   "root" : src/fetch_to_db.py      (DatabaseManager, FeedProcessor)     *)
(*   "pkg"  : src/src/fetch_to_db.py  (Database, FeedProcessor)            *)
(* A run of main() of either one is a behaviour of Spec; the variable impl *)
(* says which one runs.                                                    *)
(*                                                                         *)
(* Text is modelled as a tuple of characters (1-character strings), so     *)
(* that str.strip() and difflib's ratio are computed rather than assumed.  *)
(* A URL or a name that is only compared for equality is written as one    *)
(* atom standing for a run of non-whitespace characters.                   *)
(* None is <<>> and an Optional value x is <<x>> where the code tests it.  *)
(***************************************************************************)
EXTENDS Integers, Sequences, FiniteSets, TLC

VARIABLES
    impl,          \* which implementation's main() runs: "root" or "pkg"
    feed_list,     \* the file CONFIG['FEED_LIST']: NoFile or its lines
    posts,         \* the committed rows of table posts, in rowid order
    main_pc,       \* position of main()
    exit_status,   \* exit status of the process once main_pc is final
    urls,          \* main's local  urls
    task,          \* task[i]: the process_feed(urls[i]) call of the pool
    faults,        \* storage errors raised so far (bounded by MaxFaults)
    run,           \* which run of the program this is, and the rows it found
    d_entry,       \* date normaliser under test: the entry
    d_out,         \* date normaliser under test: results
    s_db,          \* Store operation under test: the table before the call
    s_batch,       \* Store operation under test: the batch
    s_out,         \* Store operation under test: results
    analyzer,      \* a StudentClusteringAnalyzer object
    contacts,      \* deduplicate_contacts under test: the argument
    contacts_out,  \* deduplicate_contacts under test: results
    f_title,       \* title filter under test: the candidate title
    f_existing,    \* title filter under test: the existing titles
    f_out,         \* title filter under test: results
    conn_th,       \* connection handling: position of the main thread and the workers
    conn_open,     \* connection handling: number of open connections
    dm             \* DataManager: the database file and the calls made so far

vars == <<impl, feed_list, posts, main_pc, exit_status, urls, task, faults, run,
          d_entry, d_out, s_db, s_batch, s_out, analyzer, contacts, contacts_out,
          f_title, f_existing, f_out, conn_th, conn_open, dm>>

pipeline_vars == <<impl, feed_list, posts, main_pc, exit_status, urls, task, faults,
                   run>>
date_vars == <<d_entry, d_out>>
store_vars == <<s_db, s_batch, s_out>>
analytics_vars == <<analyzer, contacts, contacts_out>>
filter_vars == <<f_title, f_existing, f_out>>
\* the variables of the units that are also run on their own
conn_vars == <<conn_th, conn_open>>
unit_vars == <<filter_vars, conn_vars, dm>>

----------------------------------------------------------------------------
(* Bounds of the model *)

\* CONFIG['MAX_WORKERS'] is 4 and CONFIG['BATCH_SIZE'] is 50 in both
\* implementations; the model runs the same code with a smaller pool and a
\* smaller batch so that a full pool and a mid-loop flush happen on feeds of
\* two or three entries.
MAX_WORKERS == 2
BATCH_SIZE == 2
\* at most this many storage errors are raised in one run
MaxFaults == 1

\* CONFIG['SIMILARITY_THRESHOLD'] = CONFIG['TITLE_SIMILARITY'] = 0.9 = 9/10
THRESHOLD_NUM == 9
THRESHOLD_DEN == 10

None == <<>>
\* the FEED_LIST file: missing, or its lines
NoFile == [exists |-> FALSE, lines |-> <<>>]
File(lines) == [exists |-> TRUE, lines |-> lines]
WS == {" ", "\t", "\n"}

----------------------------------------------------------------------------
(* Python helpers *)

\* str.strip(): leading and trailing whitespace removed
RECURSIVE lstrip(_)
lstrip(s) == IF s # <<>> /\ Head(s) \in WS THEN lstrip(Tail(s)) ELSE s

RECURSIVE rstrip(_)
rstrip(s) ==
    IF s # <<>> /\ s[Len(s)] \in WS THEN rstrip(SubSeq(s, 1, Len(s) - 1)) ELSE s

strip(s) == rstrip(lstrip(s))

\* dict.get(key, default)
entry_get(d, key, default) == IF key \in DOMAIN d THEN d[key] ELSE default

\* x or y  on strings (None and "" are both falsy)
py_or(x, y) == IF x # <<>> THEN x ELSE y

\* max / sum over a finite set of naturals
SetMax(S) == IF S = {} THEN 0 ELSE CHOOSE x \in S : \A y \in S : y <= x

----------------------------------------------------------------------------
(* difflib.SequenceMatcher(None, a, b).ratio()  (no junk; the autojunk    *)
(* heuristic only applies to sequences of 200 or more elements)            *)

\* find_longest_match: the longest block a[i..i+k-1] = b[j..j+k-1] inside
\* a[alo..ahi-1], b[blo..bhi-1]; of the longest the one starting earliest in
\* a, and of those the one starting earliest in b.
find_longest_match(a, b, alo, ahi, blo, bhi) ==
    LET cands == { c \in (alo..(ahi-1)) \X (blo..(bhi-1)) \X (1..(ahi-alo)) :
                      /\ c[1] + c[3] <= ahi
                      /\ c[2] + c[3] <= bhi
                      /\ \A d \in 0..(c[3]-1) : a[c[1]+d] = b[c[2]+d] }
        better(c, o) == \/ c[3] > o[3]
                        \/ c[3] = o[3] /\ c[1] < o[1]
                        \/ c[3] = o[3] /\ c[1] = o[1] /\ c[2] <= o[2]
    IN  IF cands = {} THEN <<alo, blo, 0>>
        ELSE CHOOSE c \in cands : \A o \in cands : better(c, o)

\* get_matching_blocks, summed: the number of matched characters M
RECURSIVE matches(_, _, _, _, _, _)
matches(a, b, alo, ahi, blo, bhi) ==
    LET m == find_longest_match(a, b, alo, ahi, blo, bhi)
    IN  IF m[3] = 0 THEN 0
        ELSE m[3]
             + (IF alo < m[1] /\ blo < m[2]
                  THEN matches(a, b, alo, m[1], blo, m[2]) ELSE 0)
             + (IF m[1] + m[3] < ahi /\ m[2] + m[3] < bhi
                  THEN matches(a, b, m[1] + m[3], ahi, m[2] + m[3], bhi) ELSE 0)

\* ratio() = 2.0 * M / T, and 1.0 when T = 0: as the pair <<numerator, denominator>>
ratio(a, b) ==
    LET T == Len(a) + Len(b)
    IN  IF T = 0 THEN <<1, 1>>
        ELSE <<2 * matches(a, b, 1, Len(a) + 1, 1, Len(b) + 1), T>>

\* mutant of ratio_above_threshold: ratio() >= 0.9
ratio_at_least_threshold(a, b) ==
    LET r == ratio(a, b) IN r[1] * THRESHOLD_DEN >= THRESHOLD_NUM * r[2]

\* ratio() > 0.9
ratio_above_threshold(a, b) ==
    LET r == ratio(a, b) IN r[1] * THRESHOLD_DEN > THRESHOLD_NUM * r[2]

----------------------------------------------------------------------------
(* Dates *)

Digit == <<"0", "1", "2", "3", "4", "5", "6", "7", "8", "9">>
Pad2(n) == <<Digit[((n \div 10) % 10) + 1], Digit[(n % 10) + 1]>>
Pad4(n) == Pad2(n \div 100) \o Pad2(n % 100)

\* strftime("%Y-%m-%d %H:%M:%S") of the six leading fields <<Y, M, D, h, m, s>>
\* of a datetime or a struct_time (years 1000..9999, as feeds carry)
strftime(t) ==
    Pad4(t[1]) \o <<"-">> \o Pad2(t[2]) \o <<"-">> \o Pad2(t[3]) \o <<" ">> \o
    Pad2(t[4]) \o <<":">> \o Pad2(t[5]) \o <<":">> \o Pad2(t[6])

\* A text of the canonical form  dddd-dd-dd dd:dd:dd  and the numbers it spells
IsDigit(c) == \E d \in 1..10 : Digit[d] = c
DigitVal(c) == (CHOOSE d \in 1..10 : Digit[d] = c) - 1
Num2(s, i) == 10 * DigitVal(s[i]) + DigitVal(s[i + 1])
Num4(s, i) == 100 * Num2(s, i) + Num2(s, i + 2)
IsTimestampForm(s) ==
    /\ Len(s) = 19
    /\ s[5] = "-" /\ s[8] = "-" /\ s[11] = " " /\ s[14] = ":" /\ s[17] = ":"
    /\ \A i \in {1, 2, 3, 4, 6, 7, 9, 10, 12, 13, 15, 16, 18, 19} : IsDigit(s[i])
TimestampFields(s) ==
    <<Num4(s, 1), Num2(s, 6), Num2(s, 9), Num2(s, 12), Num2(s, 15), Num2(s, 18)>>

\* datetime(Y, M, D, h, m, s) accepts the fields (it raises ValueError otherwise)
IsLeap(y) == (y % 4 = 0 /\ y % 100 # 0) \/ y % 400 = 0
DaysInMonth(y, m) ==
    IF m = 2 THEN (IF IsLeap(y) THEN 29 ELSE 28)
    ELSE IF m \in {4, 6, 9, 11} THEN 30 ELSE 31
ValidDatetime(t) ==
    /\ t[1] \in 1..9999 /\ t[2] \in 1..12
    /\ t[3] >= 1 /\ t[3] <= DaysInMonth(t[1], t[2])
    /\ t[4] \in 0..23 /\ t[5] \in 0..59 /\ t[6] \in 0..59

\* Raw date texts of feed entries, each one atom, and the datetime that
\* dateutil's parser returns for it: the wall-clock fields as written in the
\* text; the UTC offset stays in tzinfo, which strftime does not print.
TXT_JAN1_P2 == <<"Mon, 01 Jan 2024 12:00:00 +0200">>
TXT_FEB2_GMT == <<"Fri, 02 Feb 2024 08:30:05 GMT">>
TXT_MAR3_M5 == <<"2024-03-03T23:59:59-05:00">>
TXT_GARBAGE == <<"sometime last week">>

\* mutant of date_parser_parse: a canonical text is read day first
\* (YYYY-DD-MM) whenever that is a date too
date_parser_parse_dayfirst(s) ==
    CASE s = TXT_JAN1_P2  -> << <<2024, 1, 1, 12, 0, 0>> >>
      [] s = TXT_FEB2_GMT -> << <<2024, 2, 2, 8, 30, 5>> >>
      [] s = TXT_MAR3_M5  -> << <<2024, 3, 3, 23, 59, 59>> >>
      [] IsTimestampForm(s) /\ ValidDatetime(TimestampFields(s)) ->
            LET t == TimestampFields(s)
                swapped == <<t[1], t[3], t[2], t[4], t[5], t[6]>>
            IN  IF ValidDatetime(swapped) THEN <<swapped>> ELSE <<t>>
      [] OTHER            -> None

\* dateutil.parser.parse(s): <<datetime fields>>, or None when it raises.
\* A text of the canonical form is read year, month, day, hour, minute,
\* second; the parser raises when these are not a date and time.
date_parser_parse(s) ==
    CASE s = TXT_JAN1_P2  -> << <<2024, 1, 1, 12, 0, 0>> >>
      [] s = TXT_FEB2_GMT -> << <<2024, 2, 2, 8, 30, 5>> >>
      [] s = TXT_MAR3_M5  -> << <<2024, 3, 3, 23, 59, 59>> >>
      [] IsTimestampForm(s) /\ ValidDatetime(TimestampFields(s)) ->
            <<TimestampFields(s)>>
      [] OTHER            -> None

\* feedparser's published_parsed for the same texts: a struct_time in UTC
UTC_JAN1 == <<2024, 1, 1, 10, 0, 0>>
UTC_FEB2 == <<2024, 2, 2, 8, 30, 5>>
UTC_MAR4 == <<2024, 3, 4, 4, 59, 59>>

\* datetime.now(timezone.utc): the instants at which the run may read the clock
Clock == << <<2026, 11, 5, 9, 0, 0>>, <<2026, 11, 5, 9, 0, 1>> >>

\* the clock readings of n successive calls: the clock does not run backwards
NowSeqs(n) ==
    { [k \in 1..n |-> Clock[f[k]]] :
        f \in { g \in [1..n -> 1..Len(Clock)] :
                   \A a \in 1..n, b \in 1..n : a < b => g[a] <= g[b] } }

\* the first of  fields  whose text is present, non-empty and parses; None if none
RECURSIVE first_parsed(_, _)
first_parsed(entry, fields) ==
    IF fields = <<>> THEN None
    ELSE LET date_str == entry_get(entry, Head(fields), None)
             dt == IF date_str # None THEN date_parser_parse(date_str) ELSE None
         IN  IF dt # None THEN dt ELSE first_parsed(entry, Tail(fields))

\* mutant of parse_date: the structured time is preferred to the raw texts
parse_date_structured_first(entry) ==
    IF entry_get(entry, "published_parsed", None) # None
      THEN strftime(entry["published_parsed"])
      ELSE LET dt == first_parsed(entry, <<"published", "updated">>)
           IN  IF dt # None THEN strftime(dt[1]) ELSE <<>>

\* mutant of parse_date: the structured time is never looked at
parse_date_without_structured(entry) ==
    LET dt == first_parsed(entry, <<"published", "updated">>)
    IN  IF dt # None THEN strftime(dt[1]) ELSE <<>>

\* FeedProcessor.parse_date (root)
parse_date(entry) ==
    LET dt == first_parsed(entry, <<"published", "updated">>)
    IN  IF dt # None THEN strftime(dt[1])
        ELSE IF entry_get(entry, "published_parsed", None) # None
               THEN strftime(entry["published_parsed"])
               ELSE <<>>

\* FeedProcessor._parse_date (pkg); now is the clock reading of the call
_parse_date(entry, now) ==
    LET dt == first_parsed(entry, <<"published", "updated">>)
    IN  IF dt # None THEN strftime(dt[1]) ELSE strftime(now)

----------------------------------------------------------------------------
(* The Store: table posts of the SQLite file.  A row carries the columns   *)
(* the pipeline reads or that tell rows apart; summary, tags, word_count,  *)
(* image_url and fetched_at are written with the row and never read back.  *)

\* mutant of insert_or_ignore: the UNIQUE constraint on url is missing
insert_without_unique(rows, row) == [rows |-> Append(rows, row), changes |-> 1]

\* mutant of insert_or_ignore: INSERT OR REPLACE, the stored row of the same
\* url is deleted and the new one is added
insert_or_replace(rows, row) ==
    [rows |-> Append(SelectSeq(rows, LAMBDA r : r.url # row.url), row), changes |-> 1]

\* INSERT OR IGNORE INTO posts ... for one row, under  url TEXT UNIQUE
insert_or_ignore(rows, row) ==
    IF \E k \in 1..Len(rows) : rows[k].url = row.url
      THEN [rows |-> rows, changes |-> 0]
      ELSE [rows |-> Append(rows, row), changes |-> 1]

\* cursor.executemany(INSERT OR IGNORE ..., values): the statement once per
\* value, rowcount the sum of the rows each execution changed
RECURSIVE executemany(_, _)
executemany(rows, values) ==
    IF values = <<>> THEN [rows |-> rows, rowcount |-> 0]
    ELSE LET one == insert_or_ignore(rows, Head(values))
             rest == executemany(one.rows, Tail(values))
         IN  [rows |-> rest.rows, rowcount |-> one.changes + rest.rowcount]

\* sqlite3.connect: a connection sees the committed rows and works on its own
\* transaction until commit()
connect(db) == [committed |-> db, work |-> db]
conn_commit(conn) == [committed |-> conn.work, work |-> conn.work]
\* conn.close(): what the file holds afterwards; an open transaction is
\* rolled back
conn_close(conn) == conn.committed

\* mutant of add_posts_batch: the connection is closed without commit
add_posts_batch_uncommitted(db, batch) ==
    IF batch = <<>> THEN [db |-> db, ret |-> 0]
    ELSE LET conn == connect(db)
             r == executemany(conn.work, batch)
         IN  [db |-> conn_close([conn EXCEPT !.work = r.rows]),
              ret |-> r.rowcount]

\* mutant of add_posts_batch: reports the number of posts it was given
add_posts_batch_counts_given(db, batch) ==
    IF batch = <<>> THEN [db |-> db, ret |-> 0]
    ELSE LET conn == connect(db)
             r == executemany(conn.work, batch)
         IN  [db |-> conn_close(conn_commit([conn EXCEPT !.work = r.rows])),
              ret |-> Len(batch)]

\* DatabaseManager.add_posts_batch (root): [db: the file afterwards, ret]
add_posts_batch(db, batch) ==
    IF batch = <<>> THEN [db |-> db, ret |-> 0]
    ELSE LET conn == connect(db)
             r == executemany(conn.work, batch)
         IN  [db |-> conn_close(conn_commit([conn EXCEPT !.work = r.rows])),
              ret |-> r.rowcount]

\* Database.insert_posts (pkg): executemany, then the connection is closed;
\* commit is never called
insert_posts(db, batch) ==
    IF batch = <<>> THEN [db |-> db, ret |-> 0]
    ELSE LET conn == connect(db)
             r == executemany(conn.work, batch)
         IN  [db |-> conn_close([conn EXCEPT !.work = r.rows]),
              ret |-> r.rowcount]

\* mutant of select_titles: SELECT title FROM posts, without the WHERE clause
select_all_titles(db, newsletter) == [k \in 1..Len(db) |-> db[k].title]

\* SELECT title FROM posts WHERE newsletter = ?
select_titles(db, newsletter) ==
    LET hit == SelectSeq(db, LAMBDA r : r.newsletter = newsletter)
    IN  [k \in 1..Len(hit) |-> hit[k].title]

\* DatabaseManager.get_existing_titles (root)
get_existing_titles(db, newsletter) == select_titles(connect(db).committed, newsletter)

\* Database.get_titles (pkg)
get_titles(db, newsletter) == select_titles(connect(db).committed, newsletter)

\* SELECT COUNT( * ) FROM posts  on a new connection
count_rows(db) == Len(connect(db).committed)

\* The schema of the database file: master is the set of the names of the
\* objects it holds (sqlite_master), rows the rows of table posts, error is
\* set when a statement raised sqlite3.Error.
DbFile(master, rows) == [master |-> master, rows |-> rows, error |-> FALSE]

\* mutant of create_table_if_not_exists: DROP TABLE IF EXISTS posts, then
\* CREATE TABLE posts
create_table_drop_first(file) ==
    [file EXCEPT !.master = @ \cup {"posts"}, !.rows = <<>>]

\* CREATE TABLE IF NOT EXISTS posts (...)
create_table_if_not_exists(file) ==
    IF "posts" \in file.master THEN file
    ELSE [file EXCEPT !.master = @ \cup {"posts"}, !.rows = <<>>]

\* CREATE INDEX IF NOT EXISTS name ON posts(...)
create_index_if_not_exists(file, name) ==
    IF name \in file.master THEN file ELSE [file EXCEPT !.master = @ \cup {name}]

\* DatabaseManager._init_db (root)
_init_db(file) ==
    create_index_if_not_exists(
        create_index_if_not_exists(create_table_if_not_exists(file), "idx_url"),
        "idx_newsletter")

\* Database._initialize (pkg)
_initialize(file) ==
    create_index_if_not_exists(
        create_index_if_not_exists(create_table_if_not_exists(file), "idx_url"),
        "idx_newsletter_title")

\* DatabaseManager(db_file) / Database(db_file) constructed k times on one file
RECURSIVE construct_times(_, _, _)
construct_times(which, file, k) ==
    IF k = 0 THEN file
    ELSE construct_times(which,
                         IF which = "root" THEN _init_db(file) ELSE _initialize(file),
                         k - 1)

----------------------------------------------------------------------------
(* FeedProcessor: entries to posts *)

\* mutant of is_similar_title: only an identical title counts
is_same_title(title, existing_titles) ==
    \E k \in 1..Len(existing_titles) : title = existing_titles[k]

\* mutant of is_similar_title: the titles are those stored when the entry is
\* checked, not the list the call read
is_similar_title_live(title, existing_titles) ==
    \E k \in 1..Len(posts) : ratio_above_threshold(title, posts[k].title)

\* FeedProcessor.is_similar_title
is_similar_title(title, existing_titles) ==
    \E k \in 1..Len(existing_titles) :
        ratio_above_threshold(title, existing_titles[k])

\* mutant of make_post: the feed-level author is taken before the entry's
make_post_feed_author_first(entry, feed, newsletter, title, link, published) ==
    [newsletter |-> newsletter,
     title      |-> title,
     url        |-> link,
     author     |-> py_or(entry_get(feed.feed, "author", None),
                          py_or(entry_get(entry, "author", None), newsletter)),
     published  |-> published]

\* Post(newsletter=..., title=..., url=..., author=..., published=...)
make_post(entry, feed, newsletter, title, link, published) ==
    [newsletter |-> newsletter,
     title      |-> title,
     url        |-> link,
     author     |-> py_or(entry_get(entry, "author", None),
                          py_or(entry_get(feed.feed, "author", None), newsletter)),
     published  |-> published]

\* mutant of _create_post_from_entry: title and link are tested before strip
_create_post_unstripped_test(entry, feed, newsletter) ==
    LET title == strip(entry_get(entry, "title", <<>>))
        link  == strip(entry_get(entry, "link", <<>>))
    IN  IF ~(entry_get(entry, "title", <<>>) # <<>> /\ entry_get(entry, "link", <<>>) # <<>>)
          THEN None
          ELSE <<make_post(entry, feed, newsletter, title, link, parse_date(entry))>>

\* FeedProcessor._create_post_from_entry (root): None or <<post>>
_create_post_from_entry(entry, feed, newsletter) ==
    LET title == strip(entry_get(entry, "title", <<>>))
        link  == strip(entry_get(entry, "link", <<>>))
    IN  IF ~(title # <<>> /\ link # <<>>)
          THEN None
          ELSE <<make_post(entry, feed, newsletter, title, link, parse_date(entry))>>

\* FeedProcessor._process_entries (pkg); nows[k] is the clock reading of the
\* k-th entry's _parse_date call
RECURSIVE _process_entries(_, _, _, _, _)
_process_entries(entries, feed, newsletter, existing_titles, nows) ==
    IF entries = <<>> THEN <<>>
    ELSE LET entry == Head(entries)
             title == strip(entry_get(entry, "title", <<>>))
             url   == strip(entry_get(entry, "link", <<>>))
             rest  == _process_entries(Tail(entries), feed, newsletter,
                                       existing_titles, Tail(nows))
         IN  IF ~(title # <<>> /\ url # <<>>)
                \/ \E k \in 1..Len(existing_titles) :
                       ratio_above_threshold(title, existing_titles[k])
               THEN rest
               ELSE <<make_post(entry, feed, newsletter, title, url,
                                _parse_date(entry, Head(nows)))>> \o rest

----------------------------------------------------------------------------
(* The feeds of the model: what feedparser.parse returns for each listed   *)
(* URL (the endpoint normalize_feed_url derives from it).                  *)

T_MY_POST      == <<"M", "y", " ", "P", "o", "s", "t">>
T_MY_POST_BANG == <<"M", "y", " ", "P", "o", "s", "t", "!">>
T_NEWS         == <<" ", "N", "e", "w", "s", "\n">>
T_REMIX        == <<"R", "e", "m", "i", "x">>
T_BLANK        == <<" ", "\t">>

U1 == <<"https://one.substack.com">>
U2 == <<"https://one.example.org/feed">>
U3 == <<"https://broken.substack.com">>
U4 == <<"https://untitled.substack.com">>
U5 == <<"https://unreachable.substack.com">>

\* ratio(T_MY_POST_BANG, T_MY_POST) = 14/15 > 0.9
ENTRY_MY_POST ==
    [title |-> T_MY_POST, link |-> <<"http://x.com/1">>, author |-> <<"ann">>,
     published |-> TXT_JAN1_P2, published_parsed |-> UTC_JAN1]
ENTRY_BLANK_TITLE ==
    [title |-> T_BLANK, link |-> <<"http://x.com/9">>, published |-> TXT_GARBAGE]
ENTRY_NEWS ==
    [title |-> T_NEWS, link |-> <<" ", "http://x.com/4", "\n">>,
     published |-> TXT_GARBAGE, updated |-> TXT_FEB2_GMT]
ENTRY_MY_POST_BANG ==
    [title |-> T_MY_POST_BANG, link |-> <<"http://x.com/2">>, author |-> <<>>,
     published_parsed |-> UTC_MAR4]
ENTRY_REMIX_SAME_LINK ==
    [title |-> T_REMIX, link |-> <<"http://x.com/1">>, author |-> <<"bob">>]
ENTRY_NO_TITLE ==
    [link |-> <<"http://x.com/5">>, author |-> <<"cat">>]
ENTRY_NO_LINK ==
    [title |-> T_REMIX, link |-> <<" ">>]
ENTRY_MY_POST_ELSEWHERE ==
    [title |-> T_MY_POST, link |-> <<"http://x.com/6">>, published |-> TXT_GARBAGE]

FEED_ONE ==
    [raises |-> FALSE, bozo |-> FALSE,
     feed |-> [title |-> <<"One">>],
     entries |-> <<ENTRY_MY_POST, ENTRY_BLANK_TITLE, ENTRY_NEWS>>]
FEED_ONE_LATER ==
    [raises |-> FALSE, bozo |-> FALSE,
     feed |-> [title |-> <<"One">>, author |-> <<"Sam">>],
     entries |-> <<ENTRY_MY_POST_BANG, ENTRY_REMIX_SAME_LINK>>]
FEED_BROKEN ==
    [raises |-> FALSE, bozo |-> TRUE,
     feed |-> [title |-> <<"Broken">>],
     entries |-> <<ENTRY_MY_POST_ELSEWHERE>>]
FEED_UNTITLED ==
    [raises |-> FALSE, bozo |-> FALSE,
     feed |-> [author |-> <<>>],
     entries |-> <<ENTRY_NO_TITLE, ENTRY_MY_POST_ELSEWHERE, ENTRY_NO_LINK>>]
FEED_UNREACHABLE ==
    [raises |-> TRUE, bozo |-> FALSE, feed |-> [title |-> <<>>], entries |-> <<>>]

feedparser_parse(url) ==
    CASE url = U1 -> FEED_ONE
      [] url = U2 -> FEED_ONE_LATER
      [] url = U3 -> FEED_BROKEN
      [] url = U4 -> FEED_UNTITLED
      [] OTHER    -> FEED_UNREACHABLE

\* The source lists of the model: the lines of the FEED_LIST file
FeedLists ==
    { << U1 >>,
      << U1, U1 >>,
      << U1, <<"\n">>, U2 >>,
      << U3, <<" ">> \o U1 \o <<"\n">>, U2 >>,
      << U4, U2, <<"\t", "\n">> >>,
      << U5, U4, U1 >>,
      << U2, U1, U2 >>,
      << U1, U4, U2, U3 >> }

----------------------------------------------------------------------------
(* The pool of main(): task[i] is the call process_feed(urls[i]).          *)
(*   pc: "queued" -> "parsed" -> "loop" -> "final" -> "done"   (root)      *)
(*       "queued" -> "parsed" -> "insert" -> "done"            (pkg)       *)
(*       "raised": an exception left process_feed                          *)
(* result is the return value (None, or <<n>>) once pc = "done".           *)
(* call_len, added, handed and checked are history: the number of rows     *)
(* stored when the call began, the number of rows the call has added, the  *)
(* posts it has handed to the Store, and every post that passed the title  *)
(* filter with the number of rows stored when it was checked; calls is the *)
(* number of times the call was started and read_rows the number of rows   *)
(* stored when it read the titles of its source.                           *)

NewTask ==
    [pc |-> "queued", newsletter |-> <<>>, existing_titles |-> <<>>, idx |-> 1,
     posts_to_add |-> <<>>, result |-> None, err |-> "none",
     call_len |-> 0, added |-> 0, handed |-> <<>>, checked |-> <<>>, calls |-> 0,
     read_rows |-> None]

Running(i) == task[i].pc \in {"parsed", "loop", "final", "insert"}
Finished(i) == task[i].pc \in {"done", "raised"}

\* Executor.map's result iterator (which pkg's main consumes with list())
\* cancels the futures not yet started once a result it waits for raises
Cancelled(i) ==
    /\ impl = "pkg"
    /\ task[i].pc = "queued"
    /\ \E k \in DOMAIN task :
          task[k].pc = "raised" /\ \A j \in 1..(k-1) : Finished(j)

\* mutant of CanStart: a thread is started for every item of the queue
CanStart_unbounded(i) ==
    /\ main_pc = "pool"
    /\ task[i].pc = "queued"
    /\ \A j \in 1..(i-1) : task[j].pc # "queued"
    /\ ~Cancelled(i)

\* a worker of ThreadPoolExecutor(max_workers) takes the next item of the queue
CanStart(i) ==
    /\ main_pc = "pool"
    /\ task[i].pc = "queued"
    /\ \A j \in 1..(i-1) : task[j].pc # "queued"
    /\ Cardinality({j \in DOMAIN task : Running(j)}) < MAX_WORKERS
    /\ ~Cancelled(i)

\* mutant of process_feed_except: the exception is not caught
process_feed_reraise(t, kind) == [t EXCEPT !.pc = "raised", !.err = kind]

\* except Exception as e: logger.error(...); return None      (root)
process_feed_except(t, kind) ==
    [t EXCEPT !.pc = "done", !.result = None, !.err = kind]

\* mutant of pkg_process_feed_except: the exception is not caught
pkg_process_feed_reraise(t, kind) == [t EXCEPT !.pc = "raised", !.err = kind]

\* except Exception as e: logger.error(...); return None      (pkg)
pkg_process_feed_except(t, kind) ==
    [t EXCEPT !.pc = "done", !.result = None, !.err = kind]

\* the first run of the program on a machine, with no rows stored before
FirstRun == [n |-> "first", rows |-> 0]

\* mutant of bozo_return: the bozo flag is not looked at
bozo_ignored(t, feed, url) ==
    [t EXCEPT !.pc = "parsed", !.newsletter = entry_get(feed.feed, "title", url)]

\* if feed.bozo: logger.warning(...); return None
bozo_return(t, feed, url) ==
    [t EXCEPT !.pc = "done", !.result = None, !.err = "bozo"]

\* a storage error (sqlite3.Error) is raised by the Store operation at hand
StorageError == faults < MaxFaults /\ faults' = faults + 1

----------------------------------------------------------------------------
(* FeedProcessor.process_feed, root *)

\* feedparser.parse, the bozo test and the newsletter name
process_feed_fetch(i) ==
    /\ impl = "root"
    /\ CanStart(i)
    /\ LET feed == feedparser_parse(urls[i])
           t == [task[i] EXCEPT !.call_len = Len(posts), !.calls = @ + 1]
       IN  task' = [task EXCEPT ![i] =
                IF feed.raises THEN process_feed_except(t, "fetch")
                ELSE IF feed.bozo
                  THEN bozo_return(t, feed, urls[i])
                  ELSE [t EXCEPT !.pc = "parsed",
                                 !.newsletter = entry_get(feed.feed, "title", urls[i])]]
    /\ UNCHANGED <<run, impl, feed_list, posts, main_pc, exit_status, urls, faults>>
    /\ UNCHANGED <<date_vars, store_vars, analytics_vars, unit_vars>>

\* existing_titles = self.db_manager.get_existing_titles(newsletter)
process_feed_titles(i) ==
    /\ impl = "root"
    /\ task[i].pc = "parsed"
    /\ \/ /\ task' = [task EXCEPT ![i] =
                [task[i] EXCEPT
                    !.existing_titles = get_existing_titles(posts, task[i].newsletter),
                    !.read_rows = <<Len(posts)>>,
                    !.pc = IF feedparser_parse(urls[i]).entries = <<>>
                             THEN "final" ELSE "loop"]]
          /\ UNCHANGED faults
       \/ /\ StorageError
          /\ task' = [task EXCEPT ![i] = process_feed_except(@, "storage")]
    /\ UNCHANGED <<run, impl, feed_list, posts, main_pc, exit_status, urls>>
    /\ UNCHANGED <<date_vars, store_vars, analytics_vars, unit_vars>>

\* one iteration of  for entry in feed.entries
process_feed_entry(i) ==
    /\ impl = "root"
    /\ task[i].pc = "loop"
    /\ LET t == task[i]
           feed == feedparser_parse(urls[i])
           post == _create_post_from_entry(feed.entries[t.idx], feed, t.newsletter)
           keep == post # None /\ ~is_similar_title(post[1].title, t.existing_titles)
           pta == IF keep THEN Append(t.posts_to_add, post[1]) ELSE t.posts_to_add
           chk == IF keep THEN Append(t.checked, [post |-> post[1], rows |-> Len(posts)])
                    ELSE t.checked
           r == add_posts_batch(posts, pta)
           next_pc == IF t.idx = Len(feed.entries) THEN "final" ELSE "loop"
       IN  \/ /\ Len(pta) < BATCH_SIZE
              /\ task' = [task EXCEPT ![i] =
                    [t EXCEPT !.pc = next_pc, !.idx = t.idx + 1, !.posts_to_add = pta,
                              !.checked = chk]]
              /\ UNCHANGED <<posts, faults>>
           \/ /\ Len(pta) >= BATCH_SIZE
              /\ posts' = r.db
              /\ task' = [task EXCEPT ![i] =
                    [t EXCEPT !.pc = next_pc, !.idx = t.idx + 1, !.posts_to_add = <<>>,
                              !.added = t.added + Len(r.db) - Len(posts),
                              !.handed = t.handed \o pta, !.checked = chk]]
              /\ UNCHANGED faults
           \/ /\ Len(pta) >= BATCH_SIZE
              /\ StorageError
              /\ task' = [task EXCEPT ![i] = process_feed_except(t, "storage")]
              /\ UNCHANGED posts
    /\ UNCHANGED <<run, impl, feed_list, main_pc, exit_status, urls>>
    /\ UNCHANGED <<date_vars, store_vars, analytics_vars, unit_vars>>

\* inserted_count = self.db_manager.add_posts_batch(posts_to_add); return it
process_feed_final(i) ==
    /\ impl = "root"
    /\ task[i].pc = "final"
    /\ LET t == task[i]
           r == add_posts_batch(posts, t.posts_to_add)
       IN  \/ /\ posts' = r.db
              /\ task' = [task EXCEPT ![i] =
                    [t EXCEPT !.pc = "done", !.result = <<r.ret>>, !.posts_to_add = <<>>,
                              !.added = t.added + Len(r.db) - Len(posts),
                              !.handed = t.handed \o t.posts_to_add]]
              /\ UNCHANGED faults
           \/ /\ t.posts_to_add # <<>>
              /\ StorageError
              /\ task' = [task EXCEPT ![i] = process_feed_except(t, "storage")]
              /\ UNCHANGED posts
    /\ UNCHANGED <<run, impl, feed_list, main_pc, exit_status, urls>>
    /\ UNCHANGED <<date_vars, store_vars, analytics_vars, unit_vars>>

----------------------------------------------------------------------------
(* FeedProcessor.process_feed, pkg *)

\* feedparser.parse, the bozo test and the newsletter name
pkg_process_feed_fetch(i) ==
    /\ impl = "pkg"
    /\ CanStart(i)
    /\ LET feed == feedparser_parse(urls[i])
           t == [task[i] EXCEPT !.call_len = Len(posts), !.calls = @ + 1]
       IN  task' = [task EXCEPT ![i] =
                IF feed.raises THEN pkg_process_feed_except(t, "fetch")
                ELSE IF feed.bozo
                  THEN bozo_return(t, feed, urls[i])
                  ELSE [t EXCEPT !.pc = "parsed",
                                 !.newsletter = entry_get(feed.feed, "title", urls[i])]]
    /\ UNCHANGED <<run, impl, feed_list, posts, main_pc, exit_status, urls, faults>>
    /\ UNCHANGED <<date_vars, store_vars, analytics_vars, unit_vars>>

\* existing_titles = self.db.get_titles(newsletter)
pkg_process_feed_titles(i) ==
    /\ impl = "pkg"
    /\ task[i].pc = "parsed"
    /\ \/ /\ task' = [task EXCEPT ![i] =
                [task[i] EXCEPT
                    !.existing_titles = get_titles(posts, task[i].newsletter),
                    !.read_rows = <<Len(posts)>>,
                    !.pc = "insert"]]
          /\ UNCHANGED faults
       \/ /\ StorageError
          /\ task' = [task EXCEPT ![i] = pkg_process_feed_except(@, "storage")]
    /\ UNCHANGED <<run, impl, feed_list, posts, main_pc, exit_status, urls>>
    /\ UNCHANGED <<date_vars, store_vars, analytics_vars, unit_vars>>

\* posts = self._process_entries(...); inserted = self.db.insert_posts(posts);
\* return inserted
pkg_process_feed_insert(i) ==
    /\ impl = "pkg"
    /\ task[i].pc = "insert"
    /\ \E nows \in NowSeqs(Len(feedparser_parse(urls[i]).entries)) :
         LET t == task[i]
             feed == feedparser_parse(urls[i])
             ps == _process_entries(feed.entries, feed, t.newsletter,
                                    t.existing_titles, nows)
             r == insert_posts(posts, ps)
         IN  \/ /\ posts' = r.db
                /\ task' = [task EXCEPT ![i] =
                      [t EXCEPT !.pc = "done", !.result = <<r.ret>>,
                                !.added = t.added + Len(r.db) - Len(posts),
                                !.handed = ps,
                                !.checked = [k \in 1..Len(ps) |->
                                               [post |-> ps[k], rows |-> Len(posts)]]]]
                /\ UNCHANGED faults
             \/ /\ ps # <<>>
                /\ StorageError
                /\ task' = [task EXCEPT ![i] = pkg_process_feed_except(t, "storage")]
                /\ UNCHANGED posts
    /\ UNCHANGED <<run, impl, feed_list, main_pc, exit_status, urls>>
    /\ UNCHANGED <<date_vars, store_vars, analytics_vars, unit_vars>>

----------------------------------------------------------------------------
(* main(): src/fetch_to_db.py 213-227 and src/src/fetch_to_db.py 186-199   *)
(* are the same statements, but for the use of the iterator executor.map   *)
(* returns; impl tells the two apart where they differ.                    *)

\* [line.strip() for line in f if line.strip()]
RECURSIVE read_urls(_)
read_urls(lines) ==
    IF lines = <<>> THEN <<>>
    ELSE (IF strip(Head(lines)) # <<>> THEN <<strip(Head(lines))>> ELSE <<>>)
         \o read_urls(Tail(lines))

\* if not os.path.exists(CONFIG['FEED_LIST']): logger.error(...); return
main_check_file ==
    /\ main_pc = "start"
    /\ IF ~feed_list.exists
         THEN main_pc' = "done" /\ exit_status' = 0
         ELSE main_pc' = "init_db" /\ UNCHANGED exit_status
    /\ UNCHANGED <<run, impl, feed_list, posts, urls, task, faults>>
    /\ UNCHANGED <<date_vars, store_vars, analytics_vars, unit_vars>>

\* DatabaseManager(...) / Database(...): CREATE TABLE IF NOT EXISTS and the
\* indexes; a storage error here leaves main as an uncaught exception
main_init_db ==
    /\ main_pc = "init_db"
    /\ \/ main_pc' = "read_list" /\ UNCHANGED <<exit_status, faults>>
       \/ StorageError /\ main_pc' = "crashed" /\ exit_status' = 1
    /\ UNCHANGED <<run, impl, feed_list, posts, urls, task>>
    /\ UNCHANGED <<date_vars, store_vars, analytics_vars, unit_vars>>

\* the list is read and every url is submitted to the pool
main_read_list ==
    /\ main_pc = "read_list"
    /\ urls' = read_urls(feed_list.lines)
    /\ task' = [i \in 1..Len(read_urls(feed_list.lines)) |-> NewTask]
    /\ main_pc' = "pool"
    /\ UNCHANGED <<run, impl, feed_list, posts, exit_status, faults>>
    /\ UNCHANGED <<date_vars, store_vars, analytics_vars, unit_vars>>

\* mutant of main_exit: the pool is left without waiting for the workers
main_exit_no_wait ==
    /\ impl = "root"
    /\ main_pc = "pool"
    /\ main_pc' = "done"
    /\ exit_status' = 0
    /\ UNCHANGED <<run, impl, feed_list, posts, urls, task, faults>>
    /\ UNCHANGED <<date_vars, store_vars, analytics_vars, unit_vars>>

\* root: leaving  with ThreadPoolExecutor(...)  is shutdown(wait=True); the
\* iterator of executor.map is dropped unread, so no result is looked at
main_exit ==
    /\ impl = "root"
    /\ main_pc = "pool"
    /\ \A i \in DOMAIN task : Finished(i)
    /\ main_pc' = "done"
    /\ exit_status' = 0
    /\ UNCHANGED <<run, impl, feed_list, posts, urls, task, faults>>
    /\ UNCHANGED <<date_vars, store_vars, analytics_vars, unit_vars>>

\* pkg: list(executor.map(...)) takes every result in order, re-raising the
\* exception of a call that raised; then shutdown(wait=True)
pkg_main_exit ==
    /\ impl = "pkg"
    /\ main_pc = "pool"
    /\ \A i \in DOMAIN task : Finished(i) \/ Cancelled(i)
    /\ IF \E i \in DOMAIN task : task[i].pc = "raised"
         THEN main_pc' = "crashed" /\ exit_status' = 1
         ELSE main_pc' = "done" /\ exit_status' = 0
    /\ UNCHANGED <<run, impl, feed_list, posts, urls, task, faults>>
    /\ UNCHANGED <<date_vars, store_vars, analytics_vars, unit_vars>>

\* if __name__ == "__main__": main()  -  the program is started a second
\* time after a run that returned; the rows committed by the first run are
\* in the database file, everything else starts afresh
main_again ==
    /\ main_pc = "done"
    /\ run.n = "first"
    /\ run' = [n |-> "again", rows |-> Len(posts)]
    /\ main_pc' = "start"
    /\ exit_status' = -1
    /\ urls' = <<>>
    /\ task' = <<>>
    /\ UNCHANGED <<impl, feed_list, posts, faults>>
    /\ UNCHANGED <<date_vars, store_vars, analytics_vars, unit_vars>>

----------------------------------------------------------------------------
(* Specification of a run of main(), and of a second run after it *)

NotApplied == [op |-> "none"]

\* the analytics module is not in use
AnalyticsIdle == analyzer = NotApplied /\ contacts = <<>> /\ contacts_out = NotApplied

\* no unit is run on its own
FilterIdle == f_title = <<>> /\ f_existing = <<>> /\ f_out = NotApplied
ConnIdle == conn_th = <<>> /\ conn_open = 0
LoaderIdle == dm = NotApplied
UnitsIdle == FilterIdle /\ ConnIdle /\ LoaderIdle

Init ==
    /\ impl \in {"root", "pkg"}
    /\ feed_list \in {File(lines) : lines \in FeedLists} \cup {NoFile}
    /\ posts = <<>>
    /\ main_pc = "start"
    /\ exit_status = -1
    /\ urls = <<>>
    /\ task = <<>>
    /\ faults = 0
    /\ run = FirstRun
    /\ d_entry = <<>> /\ d_out = NotApplied
    /\ s_db = <<>> /\ s_batch = <<>> /\ s_out = NotApplied
    /\ AnalyticsIdle
    /\ UnitsIdle

Next ==
    \/ main_check_file
    \/ main_init_db
    \/ main_read_list
    \/ main_exit
    \/ pkg_main_exit
    \/ main_again
    \/ \E i \in DOMAIN task : process_feed_fetch(i)
    \/ \E i \in DOMAIN task : process_feed_titles(i)
    \/ \E i \in DOMAIN task : process_feed_entry(i)
    \/ \E i \in DOMAIN task : process_feed_final(i)
    \/ \E i \in DOMAIN task : pkg_process_feed_fetch(i)
    \/ \E i \in DOMAIN task : pkg_process_feed_titles(i)
    \/ \E i \in DOMAIN task : pkg_process_feed_insert(i)

Spec == Init /\ [][Next]_vars

\* The threads of a run keep running. The main thread takes its next step
\* when it can; a worker of the pool takes the next url of the queue when
\* it is free, and runs its Store operations when it reaches them.
MainStep ==
    main_check_file \/ main_init_db \/ main_read_list \/ main_exit \/ pkg_main_exit

WorkerStep(i) ==
    /\ i \in DOMAIN task
    /\ \/ process_feed_fetch(i) \/ process_feed_titles(i) \/ process_feed_final(i)
       \/ pkg_process_feed_fetch(i) \/ pkg_process_feed_titles(i)

\* The loop over the entries of a feed ends: a parsed feed has finitely many
\* entries and each iteration is a bounded computation, so a call is not
\* forever inside the loop (root) or inside _process_entries (pkg).
LoopEnds(i) == []<>(i \in DOMAIN task => task[i].pc \notin {"loop", "insert"})

\* the longest source list of the model
MaxTasks == SetMax({ Len(lines) : lines \in FeedLists })

FairSpec ==
    /\ Spec
    /\ WF_vars(MainStep)
    /\ \A i \in 1..MaxTasks : WF_vars(WorkerStep(i)) /\ LoopEnds(i)

----------------------------------------------------------------------------
(* Specification of the date normalisers alone: one entry, drawn from the  *)
(* combinations of the three date fields, is normalised once.              *)

ABSENT == <<"absent">>
DateTexts == {<<>>, TXT_GARBAGE, TXT_JAN1_P2, TXT_FEB2_GMT, TXT_MAR3_M5}
StructTimes == {None, UTC_JAN1, UTC_FEB2, UTC_MAR4}

\* the entry dict with the keys that are present
date_entry(published, updated, has_parsed, published_parsed) ==
    [k \in (IF published = ABSENT THEN {} ELSE {"published"})
           \cup (IF updated = ABSENT THEN {} ELSE {"updated"})
           \cup (IF has_parsed THEN {"published_parsed"} ELSE {}) |->
        CASE k = "published" -> published
          [] k = "updated"   -> updated
          [] OTHER           -> published_parsed]

DateEntries ==
    { date_entry(p, u, TRUE, pp) :
        p \in DateTexts \cup {ABSENT}, u \in DateTexts \cup {ABSENT}, pp \in StructTimes }
    \cup
    { date_entry(p, u, FALSE, None) :
        p \in DateTexts \cup {ABSENT}, u \in DateTexts \cup {ABSENT} }

\* texts of the canonical form, spelled character by character: the years
\* 1024, 1924, 2024, 2924, the months 01, 02, 11, 12, the days 01 and 31
\* (02-31 and 11-31 are of the form but are no dates), the hours 03 and 23
CanonTexts ==
    { <<y1, y2, "2", "4", "-", m1, m2, "-", d1, "1", " ",
        h1, "3", ":", "5", "9", ":", "0", s2>> :
        y1 \in {"1", "2"}, y2 \in {"0", "9"}, m1 \in {"0", "1"}, m2 \in {"1", "2"},
        d1 \in {"0", "3"}, h1 \in {"0", "2"}, s2 \in {"0", "7"} }

\* entries whose 'published' is such a text, alone or with other date fields
CanonEntries ==
    { [published |-> s] : s \in CanonTexts }
    \cup { [published |-> s, updated |-> TXT_FEB2_GMT, published_parsed |-> UTC_MAR4] :
              s \in CanonTexts }

DateInit ==
    /\ d_entry \in DateEntries \cup CanonEntries
    /\ d_out = NotApplied
    /\ impl = "none" /\ feed_list = NoFile /\ posts = <<>> /\ main_pc = "none"
    /\ exit_status = -1 /\ urls = <<>> /\ task = <<>> /\ faults = 0 /\ run = FirstRun
    /\ s_db = <<>> /\ s_batch = <<>> /\ s_out = NotApplied
    /\ AnalyticsIdle
    /\ UnitsIdle

apply_parse_date ==
    /\ d_out = NotApplied
    /\ d_out' = [op |-> "parse_date", published |-> parse_date(d_entry)]
    /\ UNCHANGED <<d_entry, pipeline_vars, store_vars, analytics_vars, unit_vars>>

apply__parse_date ==
    /\ d_out = NotApplied
    /\ \E k \in 1..Len(Clock) :
          d_out' = [op |-> "_parse_date", published |-> _parse_date(d_entry, Clock[k]),
                    now |-> Clock[k]]
    /\ UNCHANGED <<d_entry, pipeline_vars, store_vars, analytics_vars, unit_vars>>

DateNext == apply_parse_date \/ apply__parse_date

SpecDate == DateInit /\ [][DateNext]_vars

----------------------------------------------------------------------------
(* Specification of the Store operations alone: one batch, drawn from the  *)
(* sequences of posts over a few urls and titles, is inserted into one     *)
(* table, and inserted again.                                              *)

MaxBatchLen == 3
MaxStoredRows == 2
\* the Store is constructed up to this many times on one file
MaxInits == 3

StoreUrls == { <<"http://x.com/1">>, <<"http://x.com/2">>, <<"http://x.com/3">> }
StoreTitles == { T_MY_POST, T_REMIX }
StorePosts ==
    { [newsletter |-> <<"One">>, title |-> t, url |-> u, author |-> <<"ann">>,
       published |-> <<>>] : t \in StoreTitles, u \in StoreUrls }

SeqsUpTo(S, n) == UNION { [1..k -> S] : k \in 0..n }

\* the tables the Store can hold: no two rows with the same url
StoreTables ==
    { db \in SeqsUpTo(StorePosts, MaxStoredRows) :
        \A a \in 1..Len(db), b \in 1..Len(db) : a # b => db[a].url # db[b].url }

StoreInit ==
    /\ s_db \in StoreTables
    /\ s_batch \in SeqsUpTo(StorePosts, MaxBatchLen)
    /\ s_out = NotApplied
    /\ impl = "none" /\ feed_list = NoFile /\ posts = <<>> /\ main_pc = "none"
    /\ exit_status = -1 /\ urls = <<>> /\ task = <<>> /\ faults = 0 /\ run = FirstRun
    /\ d_entry = <<>> /\ d_out = NotApplied
    /\ AnalyticsIdle
    /\ UnitsIdle

\* add_posts_batch(s_batch), then add_posts_batch(s_batch) again
apply_add_posts_batch ==
    /\ s_out = NotApplied
    /\ LET first == add_posts_batch(s_db, s_batch)
           again == add_posts_batch(first.db, s_batch)
       IN  s_out' = [op |-> "add_posts_batch", first |-> first, again |-> again,
                     count |-> count_rows(first.db)]
    /\ UNCHANGED <<s_db, s_batch, pipeline_vars, date_vars, analytics_vars, unit_vars>>

\* insert_posts(s_batch), then COUNT( * ) and insert_posts(s_batch) on new
\* connections
apply_insert_posts ==
    /\ s_out = NotApplied
    /\ LET first == insert_posts(s_db, s_batch)
           again == insert_posts(first.db, s_batch)
       IN  s_out' = [op |-> "insert_posts", first |-> first, again |-> again,
                     count |-> count_rows(first.db)]
    /\ UNCHANGED <<s_db, s_batch, pipeline_vars, date_vars, analytics_vars, unit_vars>>

\* the schemas a file whose table holds the rows db can have: a new file, the
\* table alone, the table with the indexes of one or of both implementations
Schemas(db) ==
    (IF db = <<>> THEN {{}} ELSE {})
    \cup {{"posts"},
          {"posts", "idx_url", "idx_newsletter"},
          {"posts", "idx_url", "idx_newsletter_title"},
          {"posts", "idx_url", "idx_newsletter", "idx_newsletter_title"}}

\* the Store of one implementation is constructed once, and k times, on a
\* file that holds the rows s_db
apply_construct ==
    /\ s_out = NotApplied
    /\ s_batch = <<>>
    /\ \E which \in {"root", "pkg"}, master \in Schemas(s_db), k \in 1..MaxInits :
          s_out' = [op |-> "construct", which |-> which, k |-> k,
                    before |-> DbFile(master, s_db),
                    once |-> construct_times(which, DbFile(master, s_db), 1),
                    again |-> construct_times(which, DbFile(master, s_db), k)]
    /\ UNCHANGED <<s_db, s_batch, pipeline_vars, date_vars, analytics_vars, unit_vars>>

StoreNext == apply_add_posts_batch \/ apply_insert_posts \/ apply_construct

SpecStore == StoreInit /\ [][StoreNext]_vars

----------------------------------------------------------------------------
(* StudentClusteringAnalyzer (src/src/analytics/clustering.py).             *)
(* A DataFrame is [columns, rows, cluster]: the names of its columns, its   *)
(* rows in index order, and the column 'cluster' (None when the frame has   *)
(* none, else <<labels>> with one label per row).  analyzer holds the       *)
(* fields of the object and, in last, how the last call on it ended.        *)
(* A call that returns a value or raises is [raises, value], raises being   *)
(* "none" or the name of the exception.                                     *)

MaxStudents == 3
ClusterCounts == {1, 2, 3}

required_cols == {"StudentID", "Gender", "Grade", "Arrests", "Suspended", "Expelled"}
feature_cols == <<"Gender", "Grade", "Arrests", "Suspended", "Expelled">>

Returns(v) == [raises |-> "none", value |-> v]
Raises(e) == [raises |-> e, value |-> None]

\* sum of a sequence of naturals
RECURSIVE SeqSum(_)
SeqSum(q) == IF q = <<>> THEN 0 ELSE Head(q) + SeqSum(Tail(q))

\* the rows of the feature columns
Features(row) == [c \in 1..Len(feature_cols) |-> row[feature_cols[c]]]

\* KMeans(n_clusters=k, random_state, n_init=10).fit_predict(X): the label
\* arrays the library can return for the rows.  It raises ValueError for
\* fewer rows than clusters; every label is in 0..k-1; rows with equal
\* features get the same label; as many clusters are used as there are, or
\* as there are distinct rows when these are fewer (the library then warns
\* that it found fewer distinct clusters than n_clusters).
fit_predict(rows, k) ==
    { l \in [1..Len(rows) -> 0..(k - 1)] :
        /\ \A a \in 1..Len(rows), b \in 1..Len(rows) :
              Features(rows[a]) = Features(rows[b]) => l[a] = l[b]
        /\ LET distinct == Cardinality({ Features(rows[a]) : a \in 1..Len(rows) })
               used == Cardinality({ l[a] : a \in 1..Len(rows) })
           IN  used = IF distinct < k THEN distinct ELSE k }

\* StudentClusteringAnalyzer(n_clusters)
new_analyzer(n_clusters) ==
    [n_clusters |-> n_clusters, df |-> None, cluster_labels |-> None,
     last |-> [op |-> "__init__", raised |-> "none"]]

\* self.df['cluster'] as the sequence of its values, given the frame has it
cluster_column(a) == a.df[1].cluster[1]

\* StudentClusteringAnalyzer.get_cluster_sizes:
\* dict(self.df['cluster'].value_counts().sort_index())
get_cluster_sizes(a) ==
    IF a.cluster_labels = None THEN Raises("ValueError")
    ELSE IF a.df[1].cluster = None THEN Raises("KeyError")
    ELSE LET col == cluster_column(a)
         IN  Returns([c \in { col[r] : r \in 1..Len(col) } |->
                        Cardinality({ r \in 1..Len(col) : col[r] = c })])

\* StudentClusteringAnalyzer.get_largest_cluster_size: max(sizes.values())
get_largest_cluster_size(a) ==
    LET sizes == get_cluster_sizes(a)
    IN  IF sizes.raises # "none" THEN sizes
        ELSE IF DOMAIN sizes.value = {} THEN Raises("ValueError")
        ELSE Returns(SetMax({ sizes.value[c] : c \in DOMAIN sizes.value }))

\* StudentClusteringAnalyzer.get_student_cluster: None, or <<cluster>>
get_student_cluster(a, student_id) ==
    IF a.df = None \/ a.df[1].cluster = None THEN Raises("ValueError")
    ELSE LET rows == a.df[1].rows
             hit == { r \in 1..Len(rows) : rows[r].StudentID = student_id }
         IN  IF hit = {} THEN Returns(None)
             ELSE Returns(<<cluster_column(a)[CHOOSE r \in hit : \A q \in hit : r <= q]>>)

\* StudentClusteringAnalyzer.get_cluster_arrest_rates:
\* dict(self.df.groupby('cluster')['Arrests'].mean().sort_index()); a mean is
\* the pair <<sum, count>>
get_cluster_arrest_rates(a) ==
    IF a.df = None \/ a.df[1].cluster = None THEN Raises("ValueError")
    ELSE LET rows == a.df[1].rows
             col == cluster_column(a)
             members(c) == SelectSeq([r \in 1..Len(rows) |->
                                         [cluster |-> col[r], Arrests |-> rows[r].Arrests]],
                                     LAMBDA m : m.cluster = c)
         IN  Returns([c \in { col[r] : r \in 1..Len(col) } |->
                        <<SeqSum([m \in 1..Len(members(c)) |-> members(c)[m].Arrests]),
                          Len(members(c))>>])

\* comparison of two means
MeanLess(x, y) == x[1] * y[2] < y[1] * x[2]

\* mutant of identify_critical_risk_cluster: min in place of max
identify_lowest_risk_cluster(a) ==
    LET arrest_rates == get_cluster_arrest_rates(a)
    IN  IF arrest_rates.raises # "none" THEN arrest_rates
        ELSE IF DOMAIN arrest_rates.value = {} THEN Raises("ValueError")
        ELSE LET keys == DOMAIN arrest_rates.value
                 best == CHOOSE c \in keys :
                            \A o \in keys :
                               \/ MeanLess(arrest_rates.value[c], arrest_rates.value[o])
                               \/ (~MeanLess(arrest_rates.value[o], arrest_rates.value[c])
                                    /\ c <= o)
             IN  Returns(<<best, arrest_rates.value[best]>>)

\* StudentClusteringAnalyzer.identify_critical_risk_cluster:
\* max(arrest_rates.items(), key=lambda x: x[1]), the first of the items
\* (in the order of the cluster numbers) with the greatest rate
identify_critical_risk_cluster(a) ==
    LET arrest_rates == get_cluster_arrest_rates(a)
    IN  IF arrest_rates.raises # "none" THEN arrest_rates
        ELSE IF DOMAIN arrest_rates.value = {} THEN Raises("ValueError")
        ELSE LET keys == DOMAIN arrest_rates.value
                 best == CHOOSE c \in keys :
                            \A o \in keys :
                               \/ MeanLess(arrest_rates.value[o], arrest_rates.value[c])
                               \/ (~MeanLess(arrest_rates.value[c], arrest_rates.value[o])
                                    /\ c <= o)
             IN  Returns(<<best, arrest_rates.value[best]>>)

\* The students of the model: 1, 4, 7 and 938 of the data of
\* src/test_clustering.py (7 and 938 have the same features)
Student(id, gender, grade, arrests, suspended, expelled) ==
    [StudentID |-> id, Gender |-> gender, Grade |-> grade, Arrests |-> arrests,
     Suspended |-> suspended, Expelled |-> expelled]
StudentPool ==
    { Student(1, 0, 10, 0, 0, 0), Student(4, 1, 9, 3, 1, 1),
      Student(7, 1, 10, 1, 1, 0), Student(938, 1, 10, 1, 1, 0) }

\* a frame with the required columns, and one that lacks a column
DataFrame(rows) == [columns |-> required_cols, rows |-> rows, cluster |-> None]
DataFrames ==
    { DataFrame(rows) :
        rows \in { q \in UNION { [1..n -> StudentPool] : n \in 0..MaxStudents } :
                     \A a \in 1..Len(q), b \in 1..Len(q) : a # b => q[a] # q[b] } }
    \cup { [columns |-> required_cols \ {"Expelled"}, rows |-> <<>>, cluster |-> None] }

\* StudentClusteringAnalyzer.load_data
load_data ==
    /\ analyzer # NotApplied
    /\ \E data \in DataFrames :
          analyzer' =
            IF ~(required_cols \subseteq data.columns)
              THEN [analyzer EXCEPT !.last = [op |-> "load_data", raised |-> "ValueError"]]
              ELSE [analyzer EXCEPT !.df = <<data>>,
                                    !.last = [op |-> "load_data", raised |-> "none"]]
    /\ UNCHANGED <<contacts, contacts_out, pipeline_vars, date_vars, store_vars, unit_vars>>

\* mutant of fit: the labels are kept in self.cluster_labels only, and the
\* frame gets the label 0 in every row
fit_without_column(a, op) ==
    IF a.df = None \/ Len(a.df[1].rows) < a.n_clusters \/ a.df[1].rows = <<>>
      THEN { [a EXCEPT !.last = [op |-> op, raised |-> "ValueError"]] }
      ELSE { [a EXCEPT !.cluster_labels = <<l>>,
                       !.df = <<[a.df[1] EXCEPT
                                   !.cluster = <<[r \in 1..Len(l) |-> 0]>>]>>,
                       !.last = [op |-> op, raised |-> "none"]] :
               l \in fit_predict(a.df[1].rows, a.n_clusters) }

\* the body of fit_kmeans on the object a: the objects it can leave.
\* preprocess_data raises ValueError without data, StandardScaler raises it
\* for a frame without rows and KMeans for fewer rows than clusters.
fit(a, op) ==
    IF a.df = None \/ Len(a.df[1].rows) < a.n_clusters \/ a.df[1].rows = <<>>
      THEN { [a EXCEPT !.last = [op |-> op, raised |-> "ValueError"]] }
      ELSE { [a EXCEPT !.cluster_labels = <<l>>,
                       !.df = <<[a.df[1] EXCEPT !.cluster = <<l>>]>>,
                       !.last = [op |-> op, raised |-> "none"]] :
               l \in fit_predict(a.df[1].rows, a.n_clusters) }

\* StudentClusteringAnalyzer.fit_kmeans
fit_kmeans ==
    /\ analyzer # NotApplied
    /\ analyzer' \in fit(analyzer, "fit_kmeans")
    /\ UNCHANGED <<contacts, contacts_out, pipeline_vars, date_vars, store_vars, unit_vars>>

\* StudentClusteringAnalyzer.refit_with_n_clusters
refit_with_n_clusters ==
    /\ analyzer # NotApplied
    /\ \E n_clusters \in ClusterCounts :
          analyzer' \in fit([analyzer EXCEPT !.n_clusters = n_clusters],
                            "refit_with_n_clusters")
    /\ UNCHANGED <<contacts, contacts_out, pipeline_vars, date_vars, store_vars, unit_vars>>

ClusterInit ==
    /\ analyzer \in { new_analyzer(k) : k \in ClusterCounts }
    /\ contacts = <<>> /\ contacts_out = NotApplied
    /\ impl = "none" /\ feed_list = NoFile /\ posts = <<>> /\ main_pc = "none"
    /\ exit_status = -1 /\ urls = <<>> /\ task = <<>> /\ faults = 0 /\ run = FirstRun
    /\ d_entry = <<>> /\ d_out = NotApplied
    /\ s_db = <<>> /\ s_batch = <<>> /\ s_out = NotApplied
    /\ UnitsIdle

ClusterNext == load_data \/ fit_kmeans \/ refit_with_n_clusters

SpecCluster == ClusterInit /\ [][ClusterNext]_vars

----------------------------------------------------------------------------
(* deduplicate_contacts (src/src/analytics/contacts.py).  A contact is a    *)
(* dict with the keys name and posts and, possibly, email (None, "" or an   *)
(* address).  The dict  seen  is the sequence of its <<key, value>> items   *)
(* in insertion order; assigning to a key it holds keeps the key's place.   *)

MaxContacts == 3

\* seen[email], given the key is there
dict_get(seen, key) ==
    seen[CHOOSE k \in 1..Len(seen) : seen[k][1] = key][2]
dict_has(seen, key) == \E k \in 1..Len(seen) : seen[k][1] = key
\* seen[email] = contact
dict_set(seen, key, value) ==
    IF dict_has(seen, key)
      THEN [k \in 1..Len(seen) |-> IF seen[k][1] = key THEN <<key, value>> ELSE seen[k]]
      ELSE Append(seen, <<key, value>>)
\* list(seen.values())
dict_values(seen) == [k \in 1..Len(seen) |-> seen[k][2]]

\* mutant of dedup_step: the contact seen last is kept
dedup_step_keep_last(seen, contact) ==
    LET email == entry_get(contact, "email", None)
    IN  IF email = None THEN seen ELSE dict_set(seen, email, contact)

\* one iteration of  for contact in contacts
dedup_step(seen, contact) ==
    LET email == entry_get(contact, "email", None)
    IN  IF email = None THEN seen
        ELSE IF ~dict_has(seen, email) \/ contact.posts > dict_get(seen, email).posts
          THEN dict_set(seen, email, contact)
          ELSE seen

RECURSIVE dedup_loop(_, _)
dedup_loop(seen, cs) ==
    IF cs = <<>> THEN seen ELSE dedup_loop(dedup_step(seen, Head(cs)), Tail(cs))

\* deduplicate_contacts
deduplicate_contacts(cs) == dict_values(dedup_loop(<<>>, cs))

\* The contacts of the model: with and without the key email, with an empty
\* email, with two addresses, with 3 or 5 posts
Emails == { <<"john@ex.com">>, <<"ann@ex.com">>, <<>> }
ContactPool ==
    { [name |-> n, email |-> e, posts |-> p] :
        n \in {"J", "K"}, e \in Emails, p \in {3, 5} }
    \cup { [name |-> n, posts |-> p] : n \in {"J"}, p \in {3, 5} }

ContactsInit ==
    /\ contacts \in UNION { [1..n -> ContactPool] : n \in 0..MaxContacts }
    /\ contacts_out = NotApplied
    /\ analyzer = NotApplied
    /\ impl = "none" /\ feed_list = NoFile /\ posts = <<>> /\ main_pc = "none"
    /\ exit_status = -1 /\ urls = <<>> /\ task = <<>> /\ faults = 0 /\ run = FirstRun
    /\ d_entry = <<>> /\ d_out = NotApplied
    /\ s_db = <<>> /\ s_batch = <<>> /\ s_out = NotApplied
    /\ UnitsIdle

\* deduplicate_contacts(contacts), and deduplicate_contacts of its result
apply_deduplicate_contacts ==
    /\ contacts_out = NotApplied
    /\ contacts_out' = [op |-> "deduplicate_contacts",
                        once |-> deduplicate_contacts(contacts),
                        twice |-> deduplicate_contacts(deduplicate_contacts(contacts))]
    /\ UNCHANGED <<contacts, analyzer, pipeline_vars, date_vars, store_vars, unit_vars>>

ContactsNext == apply_deduplicate_contacts

SpecContacts == ContactsInit /\ [][ContactsNext]_vars

----------------------------------------------------------------------------
(* Properties *)

MainOver == main_pc \in {"done", "crashed"}
Rows == 1..Len(posts)
Tasks == DOMAIN task
FeedOf(i) == feedparser_parse(urls[i])
StoredUrls == { posts[k].url : k \in Rows }

\* the entry has a title and a link that are not empty after strip
HasTitleAndLink(entry) ==
    /\ strip(entry_get(entry, "title", <<>>)) # <<>>
    /\ strip(entry_get(entry, "link", <<>>)) # <<>>

\* C1: in every reachable state of a run of main(), with workers running
\* process_feed concurrently on any source list, no two rows of table posts
\* have the same url.
C1_UniqueUrl ==
    \A a \in Rows, b \in Rows : a # b => posts[a].url # posts[b].url

\* C1 witness: two calls that both began on the empty Store have both handed
\* a post with the same url to the Store, and the run is over with rows stored.
C1_Witness ==
    /\ impl = "root" /\ main_pc = "done" /\ posts # <<>>
    /\ \E i \in Tasks, j \in Tasks :
          /\ i # j
          /\ task[i].call_len = 0 /\ task[j].call_len = 0
          /\ task[i].added > 0 /\ task[j].added > 0
          /\ \E a \in 1..Len(task[i].handed), b \in 1..Len(task[j].handed) :
                task[i].handed[a].url = task[j].handed[b].url

\* C2: every row of table posts, and every post either implementation hands
\* to the Store, has a non-empty title and a non-empty url, and comes from an
\* entry of the call's feed whose title and link are non-empty after strip:
\* entries with a missing, empty or whitespace-only title or link are dropped.
C2_NoEmptyTitleOrUrl ==
    /\ \A k \in Rows : strip(posts[k].title) # <<>> /\ strip(posts[k].url) # <<>>
    /\ \A i \in Tasks : \A k \in 1..Len(task[i].handed) :
          LET post == task[i].handed[k]
          IN  /\ strip(post.title) # <<>> /\ strip(post.url) # <<>>
              /\ \E e \in 1..Len(FeedOf(i).entries) :
                    /\ HasTitleAndLink(FeedOf(i).entries[e])
                    /\ strip(FeedOf(i).entries[e].title) = post.title
                    /\ strip(FeedOf(i).entries[e].link) = post.url

\* C2 witness: a call whose feed has an entry without usable title or link
\* has returned a count and added rows, none of them for that entry.
C2_Witness ==
    \E i \in Tasks :
        /\ task[i].pc = "done" /\ task[i].result # None /\ task[i].added > 0
        /\ \E e \in 1..Len(FeedOf(i).entries) :
              /\ ~HasTitleAndLink(FeedOf(i).entries[e])
              /\ "link" \in DOMAIN FeedOf(i).entries[e]
              /\ strip(FeedOf(i).entries[e].link) \notin StoredUrls

\* the urls of a sequence of posts
UrlsOf(ps) == { ps[k].url : k \in 1..Len(ps) }
\* the posts of the batch have pairwise distinct urls, none of them stored
FreshBatch(db, batch) ==
    /\ \A a \in 1..Len(batch), b \in 1..Len(batch) :
          a # b => batch[a].url # batch[b].url
    /\ UrlsOf(batch) \cap UrlsOf(db) = {}
IsPrefix(a, b) == Len(a) <= Len(b) /\ SubSeq(b, 1, Len(a)) = a

\* C3: add_posts_batch returns the number of rows it added; the rows stored
\* before stay as they were and the urls stored afterwards are those stored
\* before and those of the batch (a url already stored, or repeated in the
\* batch, is skipped); a batch of N posts with pairwise distinct urls none of
\* which is stored adds N rows and returns N; the same batch again adds no
\* row and returns 0.
C3_AddPostsBatch ==
    s_out.op = "add_posts_batch" =>
        /\ s_out.first.ret = Len(s_out.first.db) - Len(s_db)
        /\ IsPrefix(s_db, s_out.first.db)
        /\ UrlsOf(s_out.first.db) = UrlsOf(s_db) \cup UrlsOf(s_batch)
        /\ s_out.first.ret = Cardinality(UrlsOf(s_batch) \ UrlsOf(s_db))
        /\ FreshBatch(s_db, s_batch) =>
              /\ s_out.first.ret = Len(s_batch)
              /\ s_out.first.db = s_db \o s_batch
        /\ s_out.again.ret = 0
        /\ s_out.again.db = s_out.first.db

\* C3 witness: a batch of two or more posts with distinct urls, none stored,
\* has been added to a table that already held a row, and returned its length.
C3_Witness ==
    /\ s_out.op = "add_posts_batch"
    /\ Len(s_batch) >= 2 /\ Len(s_db) >= 1
    /\ FreshBatch(s_db, s_batch)
    /\ s_out.first.ret = Len(s_batch)
    /\ s_out.count = Len(s_db) + Len(s_batch)

\* C4 (as claimed): insert_posts persists what it reports: for a batch of N
\* posts with pairwise distinct urls none of which is stored it returns N,
\* and a connection opened afterwards counts N more rows.
C4_InsertPostsPersists ==
    (s_out.op = "insert_posts" /\ FreshBatch(s_db, s_batch)) =>
        /\ s_out.first.ret = Len(s_batch)
        /\ s_out.count = Len(s_db) + Len(s_batch)

\* C5: a post that a process_feed call hands to the Store is never more than
\* 0.9 similar in title to a row that was stored under the call's source
\* when the call began, whatever its url.
C5_SimilarTitleNotPersisted ==
    \A i \in Tasks : \A k \in 1..Len(task[i].handed) : \A r \in 1..task[i].call_len :
        posts[r].newsletter = task[i].newsletter =>
            ~ratio_above_threshold(task[i].handed[k].title, posts[r].title)

\* C5 witness: a call has returned a count although its feed has an entry
\* whose title is more than 0.9 similar, and not equal, to the title of a row
\* stored under its source when it began; the entry's url is not stored.
C5_Witness ==
    \E i \in Tasks :
        /\ task[i].pc = "done" /\ task[i].result # None
        /\ \E e \in 1..Len(FeedOf(i).entries), r \in 1..task[i].call_len :
              LET entry == FeedOf(i).entries[e]
              IN  /\ HasTitleAndLink(entry)
                  /\ posts[r].newsletter = task[i].newsletter
                  /\ strip(entry.title) # posts[r].title
                  /\ ratio_above_threshold(strip(entry.title), posts[r].title)
                  /\ strip(entry.link) \notin StoredUrls

\* the entries of call i's feed that pass its filters: title and link
\* present, title not similar to a title the call read from the Store
Survivor(i, entry) ==
    /\ HasTitleAndLink(entry)
    /\ ~is_similar_title(strip(entry.title), task[i].existing_titles)

\* C6: when main() is over, every source that did not itself fail (its feed
\* was not malformed and no exception was raised in its call) has been
\* processed to completion - its call returned a count - whatever happened
\* to the other sources; and in the root implementation every entry of it
\* that passed the filters has its url stored.
C6_FailureIsolated ==
    MainOver =>
        \A i \in Tasks : task[i].err = "none" =>
            /\ task[i].pc = "done"
            /\ task[i].result # None
            /\ impl = "root" =>
                  \A e \in 1..Len(FeedOf(i).entries) :
                      Survivor(i, FeedOf(i).entries[e]) =>
                          strip(FeedOf(i).entries[e].link) \in StoredUrls

\* C6 witness: main() is over, one source failed (malformed feed, fetch or
\* storage error) and another source, started after it in the list, has
\* returned a count and added rows.
C6_Witness ==
    /\ MainOver
    /\ \E i \in Tasks, j \in Tasks :
          /\ i < j
          /\ task[i].err # "none" /\ task[i].result = None
          /\ task[j].err = "none" /\ task[j].result # None /\ task[j].added > 0

\* C7 (as claimed): the exit status of main() of src/fetch_to_db.py is nonzero
\* when the FEED_LIST file is missing and zero in every run where it exists.
C7_ExitStatus ==
    (impl = "root" /\ MainOver) => (exit_status # 0 <=> ~feed_list.exists)

\* C8 (as claimed): a storage error raised inside process_feed propagates
\* out of it; it is not turned into the return value None.
C8_StorageErrorFatal ==
    \A i \in Tasks : task[i].err = "storage" =>
        ~(task[i].pc = "done" /\ task[i].result = None)

\* C8 (amended): a storage error raised inside process_feed (by the titles
\* query or by an insert) is caught there: the call returns None, like any
\* other per-source failure, and main() ends normally with exit status 0;
\* main() ends with an exception only for a storage error of the schema
\* initialisation, before any source is processed.
C8_StorageErrorIsolated ==
    /\ \A i \in Tasks : task[i].err = "storage" =>
          task[i].pc = "done" /\ task[i].result = None
    /\ (MainOver /\ \E i \in Tasks : task[i].err = "storage") =>
          main_pc = "done" /\ exit_status = 0
    /\ main_pc = "crashed" => task = <<>> /\ exit_status = 1

\* C8 witness: main() is over after a storage error in one call, and another
\* call of the run has returned a count.
C8_Witness ==
    /\ main_pc = "done" /\ exit_status = 0
    /\ \E i \in Tasks, j \in Tasks :
          /\ task[i].err = "storage" /\ task[i].result = None
          /\ task[j].result # None

\* dateutil's reading of a raw date field of the entry: None when the field
\* is missing or empty or does not parse
RawDate(entry, field) ==
    IF field \in DOMAIN entry /\ entry[field] # <<>>
      THEN date_parser_parse(entry[field]) ELSE None
NoRawDate(entry) == RawDate(entry, "published") = None /\ RawDate(entry, "updated") = None

\* C9 (as claimed): in the pkg pipeline a post built from an entry none of
\* whose date fields parses has published = "" and is handed to insert_posts.
C9_UnparsedDateIsEmpty ==
    impl = "pkg" =>
        \A i \in Tasks : task[i].pc = "done" /\ task[i].result # None =>
            \A e \in 1..Len(FeedOf(i).entries) :
                LET entry == FeedOf(i).entries[e]
                IN  (HasTitleAndLink(entry) /\ NoRawDate(entry)) =>
                        \E k \in 1..Len(task[i].handed) :
                            /\ task[i].handed[k].url = strip(entry.link)
                            /\ task[i].handed[k].published = <<>>

\* C10 (as claimed): when the entry carries a structured published time
\* (published_parsed), parse_date returns its canonical rendering, whatever
\* raw 'published' / 'updated' strings the entry carries as well.
C10_StructuredFirst ==
    (d_out.op = "parse_date" /\ entry_get(d_entry, "published_parsed", None) # None) =>
        d_out.published = strftime(d_entry["published_parsed"])

\* C10 (amended): parse_date prefers the raw strings: the result is the
\* canonical rendering of dateutil's parse of the raw 'published' string when
\* that is present and parses; else of the raw 'updated' string when that is
\* present and parses; the structured published time (published_parsed) is
\* used only when neither raw string parses; and the result is "" when that
\* is absent too.
C10_RawFirst ==
    d_out.op = "parse_date" =>
        LET p == RawDate(d_entry, "published")
            u == RawDate(d_entry, "updated")
            s == entry_get(d_entry, "published_parsed", None)
        IN  /\ p # None => d_out.published = strftime(p[1])
            /\ (p = None /\ u # None) => d_out.published = strftime(u[1])
            /\ (p = None /\ u = None /\ s # None) => d_out.published = strftime(s)
            /\ (p = None /\ u = None /\ s = None) => d_out.published = <<>>

\* C10 witness: parse_date has run on an entry whose raw 'published' string
\* parses and whose structured published time renders differently.
C10_Witness ==
    /\ d_out.op = "parse_date"
    /\ RawDate(d_entry, "published") # None
    /\ entry_get(d_entry, "published_parsed", None) # None
    /\ strftime(d_entry["published_parsed"]) # strftime(RawDate(d_entry, "published")[1])
    /\ d_out.published = strftime(RawDate(d_entry, "published")[1])

\* the entry's only date information is the structured time published_parsed
OnlyStructuredDate(entry) ==
    /\ entry_get(entry, "published", None) = None
    /\ entry_get(entry, "updated", None) = None
    /\ entry_get(entry, "published_parsed", None) # None

\* the post was built from the entry by a call for the source
PostOfEntry(post, entry, newsletter) ==
    /\ post.newsletter = newsletter
    /\ post.title = strip(entry.title)
    /\ post.url = strip(entry.link)

\* the text is of the canonical form and spells exactly the six fields
SpellsFields(text, fields) == IsTimestampForm(text) /\ TimestampFields(text) = fields

\* "2024-01-01 12:00:00" and "2024-03-04 04:59:59"
TXT_CANON_JAN1_NOON ==
    <<"2", "0", "2", "4", "-", "0", "1", "-", "0", "1", " ",
      "1", "2", ":", "0", "0", ":", "0", "0">>
TXT_CANON_MAR4 ==
    <<"2", "0", "2", "4", "-", "0", "3", "-", "0", "4", " ",
      "0", "4", ":", "5", "9", ":", "5", "9">>

\* C11: in the root pipeline, a post built from an entry with non-empty title
\* and link whose only date information is the structured time published_parsed
\* is handed to the Store, and stored, with published equal to the canonical
\* text 'YYYY-MM-DD HH:MM:SS' that spells exactly those six fields; the fields
\* (2024,1,1,12,0,0) give "2024-01-01 12:00:00".
C11_StructuredOnlyDate ==
    /\ parse_date([published_parsed |-> <<2024, 1, 1, 12, 0, 0>>]) = TXT_CANON_JAN1_NOON
    /\ impl = "root" =>
          \A i \in Tasks : \A e \in 1..Len(FeedOf(i).entries) :
              LET entry == FeedOf(i).entries[e]
              IN  (HasTitleAndLink(entry) /\ OnlyStructuredDate(entry)) =>
                    /\ \A k \in 1..Len(task[i].handed) :
                          PostOfEntry(task[i].handed[k], entry, task[i].newsletter) =>
                              SpellsFields(task[i].handed[k].published,
                                           entry.published_parsed)
                    /\ \A r \in Rows :
                          PostOfEntry(posts[r], entry, task[i].newsletter) =>
                              SpellsFields(posts[r].published, entry.published_parsed)

\* C11 witness: the root pipeline has stored the row of an entry that carries
\* only published_parsed = (2024,3,4,4,59,59), with published
\* "2024-03-04 04:59:59".
C11_Witness ==
    /\ impl = "root"
    /\ \E i \in Tasks, r \in Rows : \E e \in 1..Len(FeedOf(i).entries) :
          LET entry == FeedOf(i).entries[e]
          IN  /\ HasTitleAndLink(entry) /\ OnlyStructuredDate(entry)
              /\ entry.published_parsed = <<2024, 3, 4, 4, 59, 59>>
              /\ task[i].added > 0
              /\ PostOfEntry(posts[r], entry, task[i].newsletter)
              /\ posts[r].published = TXT_CANON_MAR4

\* the entry's 'published' field is a canonical timestamp text
HasCanonicalPublished(entry) ==
    /\ "published" \in DOMAIN entry
    /\ IsTimestampForm(entry.published)
    /\ ValidDatetime(TimestampFields(entry.published))

\* C12: both date normalisers are idempotent on canonical texts: for an entry
\* whose 'published' field is a text 'YYYY-MM-DD HH:MM:SS' that spells a date
\* and time (years 1000 to 9999), parse_date and _parse_date return that very
\* text, whatever other date fields the entry carries.
C12_CanonicalIdempotent ==
    (d_out.op \in {"parse_date", "_parse_date"} /\ HasCanonicalPublished(d_entry)) =>
        d_out.published = d_entry.published

\* C12 witness: _parse_date has returned the canonical 'published' text of an
\* entry that also carries an 'updated' text and a structured time of other
\* dates, and whose month and day differ.
C12_Witness ==
    /\ d_out.op = "_parse_date"
    /\ HasCanonicalPublished(d_entry)
    /\ DOMAIN d_entry = {"published", "updated", "published_parsed"}
    /\ TimestampFields(d_entry.published)[2] # TimestampFields(d_entry.published)[3]
    /\ d_out.published = d_entry.published

\* C13: the Store is append-only under the pipeline: in every step of a run,
\* whatever the interleaving of the process_feed calls, every row stored
\* before the step is stored after it at the same place with every field
\* unchanged; rows are only added at the end.
C13_AppendOnly == [][IsPrefix(posts, posts')]_vars

\* C13 witness: a call has handed to the Store a post whose url was already
\* stored when the call began, with another title and another author, and
\* the stored row still has the title and the author it was stored with.
C13_Witness ==
    \E i \in Tasks : \E k \in 1..Len(task[i].handed) : \E r \in 1..task[i].call_len :
        /\ task[i].pc = "done" /\ task[i].result # None
        /\ impl = "root"
        /\ task[i].handed[k].url = posts[r].url
        /\ task[i].handed[k].title # posts[r].title
        /\ task[i].handed[k].author # posts[r].author
        /\ posts[r].title = T_MY_POST /\ posts[r].author = <<"ann">>

\* the process_feed calls in progress
InProgress == { i \in Tasks : Running(i) }

\* C14: during a run of main(), at no time are more than MAX_WORKERS
\* process_feed calls in progress, whatever the length of the source list.
C14_PoolBound == Cardinality(InProgress) <= MAX_WORKERS

\* C14 witness: the source list is longer than the pool, MAX_WORKERS calls are
\* in progress and a source is still waiting in the queue.
C14_Witness ==
    /\ Len(urls) > MAX_WORKERS
    /\ Cardinality(InProgress) = MAX_WORKERS
    /\ \E i \in Tasks : task[i].pc = "queued"

\* C15 (as claimed): in the root pipeline, a post that passed the title
\* filter is not more than 0.9 similar in title to any row that was stored
\* under the call's source at the time the post's entry was checked (rows
\* added by a flush of the same call or by another worker included).
C15_CheckedAgainstStore ==
    impl = "root" =>
        \A i \in Tasks : \A c \in 1..Len(task[i].checked) :
            \A r \in 1..task[i].checked[c].rows :
                posts[r].newsletter = task[i].newsletter =>
                    ~ratio_above_threshold(task[i].checked[c].post.title, posts[r].title)

\* the entry has title and link and its title is not more than 0.9 similar
\* to any title of the list that call i read from the Store
PassesFilter(i, entry) ==
    /\ HasTitleAndLink(entry)
    /\ \A k \in 1..Len(task[i].existing_titles) :
          ~ratio_above_threshold(strip(entry.title), task[i].existing_titles[k])

\* C16: the title filter looks only at the list of titles each call read: when
\* two root calls for the same source have both ended without error, every
\* two entries, one of each feed, with distinct urls and titles more than 0.9
\* similar that both pass their own call's check have both been handed to
\* the Store and both urls are stored; so when neither title was stored
\* before the calls read their lists, both rows are persisted.
C16_BothPassBothStored ==
    impl = "root" =>
        \A i \in Tasks, j \in Tasks :
            (/\ i # j
             /\ task[i].pc = "done" /\ task[i].err = "none"
             /\ task[j].pc = "done" /\ task[j].err = "none"
             /\ task[i].newsletter = task[j].newsletter) =>
                \A a \in 1..Len(FeedOf(i).entries), b \in 1..Len(FeedOf(j).entries) :
                    LET ea == FeedOf(i).entries[a]
                        eb == FeedOf(j).entries[b]
                    IN  (/\ PassesFilter(i, ea) /\ PassesFilter(j, eb)
                         /\ strip(ea.link) # strip(eb.link)
                         /\ ratio_above_threshold(strip(ea.title), strip(eb.title))) =>
                            /\ \E k \in 1..Len(task[i].handed) :
                                  task[i].handed[k].url = strip(ea.link)
                            /\ \E k \in 1..Len(task[j].handed) :
                                  task[j].handed[k].url = strip(eb.link)
                            /\ strip(ea.link) \in StoredUrls
                            /\ strip(eb.link) \in StoredUrls

\* C16 witness: two calls for the same source that both began on the empty
\* Store have each added a row, the two rows have distinct urls and titles
\* more than 0.9 similar, and main() is over.
C16_Witness ==
    /\ impl = "root" /\ main_pc = "done"
    /\ \E i \in Tasks, j \in Tasks : \E r1 \in Rows, r2 \in Rows :
          /\ i # j
          /\ task[i].call_len = 0 /\ task[j].call_len = 0
          /\ task[i].newsletter = task[j].newsletter
          /\ posts[r1].newsletter = task[i].newsletter
          /\ posts[r2].newsletter = task[i].newsletter
          /\ \E k \in 1..Len(task[i].handed) : task[i].handed[k] = posts[r1]
          /\ \E k \in 1..Len(task[j].handed) : task[j].handed[k] = posts[r2]
          /\ posts[r1].url # posts[r2].url
          /\ posts[r1].title # posts[r2].title
          /\ ratio_above_threshold(posts[r1].title, posts[r2].title)

\* the indexes the schema initialisation of the implementation creates
IndexesOf(which) ==
    IF which = "root" THEN {"idx_url", "idx_newsletter"}
    ELSE {"idx_url", "idx_newsletter_title"}

\* C17: schema creation is idempotent: constructing the Store of either
\* implementation on a file, also one whose table already holds posts,
\* succeeds, leaves every stored row as it was and leaves the table and the
\* implementation's indexes in place; the file after k >= 1 constructions is
\* the file after one.
C17_SchemaIdempotent ==
    s_out.op = "construct" =>
        /\ ~s_out.once.error /\ ~s_out.again.error
        /\ s_out.once.rows = s_db
        /\ {"posts"} \cup IndexesOf(s_out.which) \subseteq s_out.once.master
        /\ s_out.before.master \subseteq s_out.once.master
        /\ s_out.again = s_out.once

\* C17 witness: the root Store has been constructed three times on a file
\* whose table held two rows and lacked the indexes; the rows are still there.
C17_Witness ==
    /\ s_out.op = "construct" /\ s_out.which = "root" /\ s_out.k >= 3
    /\ Len(s_db) >= 2
    /\ s_out.before.master = {"posts"}
    /\ s_out.again.rows = s_db
    /\ s_out.again.master = {"posts", "idx_url", "idx_newsletter"}

\* the last call on the analyzer was a fit that returned
FitSucceeded ==
    /\ analyzer.last.op \in {"fit_kmeans", "refit_with_n_clusters"}
    /\ analyzer.last.raised = "none"

\* sum of the values of a function with a finite domain
RECURSIVE SumOver(_, _)
SumOver(f, S) ==
    IF S = {} THEN 0
    ELSE LET x == CHOOSE y \in S : TRUE IN f[x] + SumOver(f, S \ {x})

\* StudentIDs that are asked for: those of the pool, and 2 and 99
AskedIds == { st.StudentID : st \in StudentPool } \cup {2, 99}

\* C18: after load_data(df) and a fit with n_clusters = k that returned, every
\* loaded student has exactly one cluster in 0..k-1: get_cluster_sizes()
\* has keys in 0..k-1 and values that sum to the number of students,
\* get_largest_cluster_size() is the greatest of them, and
\* get_student_cluster(id) is the label the fit gave the (first) row of a
\* present StudentID, in 0..k-1, and None for an absent one.
C18_EveryStudentOneCluster ==
    FitSucceeded =>
        LET rows == analyzer.df[1].rows
            k == analyzer.n_clusters
            labels == analyzer.cluster_labels[1]
            sizes == get_cluster_sizes(analyzer)
            largest == get_largest_cluster_size(analyzer)
        IN  /\ Len(labels) = Len(rows)
            /\ sizes.raises = "none"
            /\ DOMAIN sizes.value \subseteq 0..(k - 1)
            /\ SumOver(sizes.value, DOMAIN sizes.value) = Len(rows)
            /\ \A c \in DOMAIN sizes.value :
                  sizes.value[c] = Cardinality({ r \in 1..Len(rows) : labels[r] = c })
            /\ largest.raises = "none"
            /\ \A c \in DOMAIN sizes.value : sizes.value[c] <= largest.value
            /\ \E c \in DOMAIN sizes.value : sizes.value[c] = largest.value
            /\ \A id \in AskedIds :
                  LET got == get_student_cluster(analyzer, id)
                      hit == { r \in 1..Len(rows) : rows[r].StudentID = id }
                  IN  /\ got.raises = "none"
                      /\ hit = {} => got.value = None
                      /\ hit # {} =>
                            /\ got.value # None
                            /\ got.value[1] \in 0..(k - 1)
                            /\ \E r \in hit : got.value[1] = labels[r]

\* C18 witness: a fit with three clusters has returned on three students in
\* three clusters, student 938 among them in a cluster other than 0, and
\* student 2 is not there.
C18_Witness ==
    /\ FitSucceeded
    /\ analyzer.n_clusters = 3 /\ Len(analyzer.df[1].rows) = 3
    /\ Cardinality(DOMAIN get_cluster_sizes(analyzer).value) = 3
    /\ get_student_cluster(analyzer, 938).value # None
    /\ get_student_cluster(analyzer, 938).value[1] # 0
    /\ get_student_cluster(analyzer, 2).value = None

\* the pair identify_critical_risk_cluster() returns is a cluster of
\* get_cluster_arrest_rates() with its rate, and no cluster has a greater rate
CriticalIsMaximal ==
    LET rates == get_cluster_arrest_rates(analyzer)
        crit == identify_critical_risk_cluster(analyzer)
    IN  /\ rates.raises = "none" /\ crit.raises = "none"
        /\ crit.value[1] \in DOMAIN rates.value
        /\ crit.value[2] = rates.value[crit.value[1]]
        /\ \A c \in DOMAIN rates.value : ~MeanLess(crit.value[2], rates.value[c])

\* C19 (as claimed): after a fit that returned, the pair (c, r) of
\* identify_critical_risk_cluster() is a cluster with its rate of
\* get_cluster_arrest_rates(), r is the greatest rate, and
\* get_cluster_arrest_rates() has one entry for each of the n_clusters clusters.
C19_OneRatePerCluster ==
    FitSucceeded =>
        /\ CriticalIsMaximal
        /\ DOMAIN get_cluster_arrest_rates(analyzer).value = 0..(analyzer.n_clusters - 1)

\* C19 (amended): after a fit that returned, the pair (c, r) of
\* identify_critical_risk_cluster() is a cluster with its rate of
\* get_cluster_arrest_rates() and r is the greatest rate;
\* get_cluster_arrest_rates() has exactly one entry for each cluster that has
\* a student, the mean of the Arrests of its students, and none for a cluster
\* without students: at most n_clusters entries, and fewer when the data has
\* fewer distinct rows than clusters.
C19_OneRatePerUsedCluster ==
    FitSucceeded =>
        LET rows == analyzer.df[1].rows
            labels == analyzer.cluster_labels[1]
            rates == get_cluster_arrest_rates(analyzer)
        IN  /\ CriticalIsMaximal
            /\ DOMAIN rates.value = { labels[r] : r \in 1..Len(rows) }
            /\ DOMAIN rates.value \subseteq 0..(analyzer.n_clusters - 1)
            /\ \A c \in DOMAIN rates.value :
                  /\ rates.value[c][2] = Cardinality({ r \in 1..Len(rows) : labels[r] = c })
                  /\ rates.value[c][2] > 0
                  /\ rates.value[c][1] =
                        SumOver([r \in 1..Len(rows) |-> rows[r].Arrests],
                                { r \in 1..Len(rows) : labels[r] = c })

\* C19 witness: a fit has returned with clusters of different arrest rates,
\* the critical cluster is not cluster 0 and is not the cluster with the
\* greatest number, and one of the n_clusters clusters has no student.
C19_Witness ==
    /\ FitSucceeded
    /\ LET rates == get_cluster_arrest_rates(analyzer)
           crit == identify_critical_risk_cluster(analyzer)
       IN  /\ crit.value[1] # 0
           /\ \E c \in DOMAIN rates.value : c > crit.value[1]
           /\ \E c \in DOMAIN rates.value : MeanLess(rates.value[c], crit.value[2])
           /\ Cardinality(DOMAIN rates.value) < analyzer.n_clusters

\* the contacts of a sequence that carry the email (a non-empty one)
WithEmail(cs, email) == { k \in 1..Len(cs) : entry_get(cs[k], "email", None) = email }
EmailsIn(cs) == { entry_get(cs[k], "email", None) : k \in 1..Len(cs) } \ {None}

\* C20: deduplicate_contacts returns at most one contact per email address;
\* for each email of the input the contact kept is an input contact with that
\* email whose posts is the greatest among the input contacts with that email
\* (the first of these); contacts without an email (no key, None or "") are
\* dropped; and applying it to its own result gives the same result.
C20_DeduplicateContacts ==
    contacts_out.op = "deduplicate_contacts" =>
        LET out == contacts_out.once
        IN  /\ \A a \in 1..Len(out), b \in 1..Len(out) :
                  a # b => out[a].email # out[b].email
            /\ \A a \in 1..Len(out) : entry_get(out[a], "email", None) # None
            /\ EmailsIn(out) = EmailsIn(contacts)
            /\ \A a \in 1..Len(out) :
                  LET same == WithEmail(contacts, out[a].email)
                      top == { k \in same : \A o \in same : contacts[o].posts <= contacts[k].posts }
                  IN  /\ out[a].posts = SetMax({ contacts[k].posts : k \in same })
                      /\ out[a] = contacts[CHOOSE k \in top : \A o \in top : k <= o]
            /\ contacts_out.twice = out

\* C20 witness: the input has a contact without email and two contacts of one
\* email of which the later has more posts; the result holds the later one.
C20_Witness ==
    /\ contacts_out.op = "deduplicate_contacts"
    /\ \E k \in 1..Len(contacts) : entry_get(contacts[k], "email", None) = None
    /\ \E a \in 1..Len(contacts), b \in 1..Len(contacts) :
          /\ a < b
          /\ "email" \in DOMAIN contacts[a] /\ "email" \in DOMAIN contacts[b]
          /\ contacts[a].email = contacts[b].email /\ contacts[a].email # None
          /\ contacts[a].posts < contacts[b].posts
          /\ contacts_out.once = <<contacts[b]>>

----------------------------------------------------------------------------
\* C21 (as claimed): a root process_feed call that returned a number
\* returned the number of rows the call added to the Store, intermediate
\* BATCH_SIZE flushes included.
C21_ReturnsRowsAdded ==
    impl = "root" =>
        \A i \in Tasks :
            (task[i].pc = "done" /\ task[i].result # None) =>
                task[i].result[1] = task[i].added

\* a line of the list that has a character other than whitespace
NonBlank(line) == \E k \in 1..Len(line) : line[k] \notin WS
\* the lines of the list that are not blank, in order
NonBlankLines == SelectSeq(feed_list.lines, LAMBDA line : NonBlank(line))
\* the characters of a line that are not whitespace
Core(line) == SelectSeq(line, LAMBDA ch : ch \notin WS)
\* main has read the list and handed its urls to the pool
ListRead == feed_list.exists /\ main_pc \in {"pool", "done"}

C22_OncePerLine ==
    /\ ListRead =>
          /\ Len(urls) = Len(NonBlankLines)
          /\ \A i \in 1..Len(urls) : urls[i] = Core(NonBlankLines[i])
          /\ DOMAIN task = 1..Len(urls)
    /\ \A i \in Tasks :
          /\ task[i].calls <= 1
          /\ task[i].pc # "queued" => task[i].calls = 1
    /\ (feed_list.exists /\ main_pc = "done") =>
          \A i \in Tasks : task[i].calls = 1 /\ task[i].pc = "done"

\* C22: main() reads the source list once and calls process_feed exactly
\* once for every non-blank line of it, with the surrounding whitespace
\* stripped and the blank lines skipped; main returns only after every one
\* of these calls has finished, and when the workers keep running (every
\* fetch terminates) main does return.
C22_MainWaitsForEveryCall ==
    /\ [](C22_OncePerLine)
    /\ [][main_pc = "pool" => urls' = urls]_vars
    /\ (main_pc = "pool") ~> MainOver

\* C22 witness: main has returned for a list with a blank line and at least
\* two sources, and every source was processed once
C22_Witness ==
    /\ main_pc = "done"
    /\ feed_list.exists
    /\ Len(urls) >= 2
    /\ Len(urls) < Len(feed_list.lines)
    /\ \A i \in Tasks : task[i].calls = 1 /\ task[i].pc = "done"

----------------------------------------------------------------------------
(* The title filter on its own: is_similar_title of src/fetch_to_db.py and *)
(* the same test inside _process_entries of src/src/fetch_to_db.py, on one *)
(* candidate title and a list of existing titles.                          *)

\* the longest list of existing titles
MaxTitles == 2

\* ratio(T_TEN, T_TEN_LAST) = 18/20 = 0.9 and ratio(T_TEN, T_TEN_MORE) = 20/21
T_TEN      == <<"a", "b", "c", "d", "e", "f", "g", "h", "i", "j">>
T_TEN_LAST == <<"a", "b", "c", "d", "e", "f", "g", "h", "i", "X">>
T_TEN_MORE == <<"a", "b", "c", "d", "e", "f", "g", "h", "i", "j", "k">>

FilterTitles == {T_MY_POST, T_MY_POST_BANG, T_REMIX, T_TEN, T_TEN_LAST, T_TEN_MORE}

FilterInit ==
    /\ f_title \in FilterTitles
    /\ f_existing \in SeqsUpTo(FilterTitles, MaxTitles)
    /\ f_out = NotApplied
    /\ impl = "none" /\ feed_list = NoFile /\ posts = <<>> /\ main_pc = "none"
    /\ exit_status = -1 /\ urls = <<>> /\ task = <<>> /\ faults = 0 /\ run = FirstRun
    /\ d_entry = <<>> /\ d_out = NotApplied
    /\ s_db = <<>> /\ s_batch = <<>> /\ s_out = NotApplied
    /\ AnalyticsIdle
    /\ ConnIdle /\ LoaderIdle

\* root: if not self.is_similar_title(post.title, existing_titles): keep it
apply_is_similar_title ==
    /\ f_out = NotApplied
    /\ f_out' = [op |-> "is_similar_title",
                 dropped |-> is_similar_title(f_title, f_existing)]
    /\ UNCHANGED <<f_title, f_existing, pipeline_vars, date_vars, store_vars,
                   analytics_vars, conn_vars, dm>>

\* pkg: _process_entries on a feed of one entry with the candidate title
apply__process_entries ==
    /\ f_out = NotApplied
    /\ \E nows \in NowSeqs(1) :
          f_out' = [op |-> "_process_entries",
                    dropped |-> _process_entries(
                                    << [title |-> f_title, link |-> <<"http://x.com/1">>] >>,
                                    FEED_ONE, <<"One">>, f_existing, nows) = <<>>]
    /\ UNCHANGED <<f_title, f_existing, pipeline_vars, date_vars, store_vars,
                   analytics_vars, conn_vars, dm>>

FilterNext == apply_is_similar_title \/ apply__process_entries

SpecFilter == FilterInit /\ [][FilterNext]_vars

\* the similarity ratio 2M/T of two titles is greater than 9/10
RatioAbove90(a, b) == 10 * ratio(a, b)[1] > 9 * ratio(a, b)[2]
\* the similarity ratio of two titles is exactly 9/10
RatioIs90(a, b) == 10 * ratio(a, b)[1] = 9 * ratio(a, b)[2]

\* C23: the near-duplicate filter (root and pkg) drops a candidate title if
\* and only if some existing title of the source has a similarity ratio
\* strictly greater than 0.9 with it: a candidate whose highest ratio is
\* exactly 0.9 is kept, a candidate identical to an existing title is dropped,
\* and with no existing titles the candidate is kept.
C23_DropsIffAboveThreshold ==
    f_out # NotApplied =>
        /\ f_out.dropped <=>
              \E k \in 1..Len(f_existing) : RatioAbove90(f_title, f_existing[k])
        /\ ( /\ \E k \in 1..Len(f_existing) : RatioIs90(f_title, f_existing[k])
             /\ \A k \in 1..Len(f_existing) : ~RatioAbove90(f_title, f_existing[k]) )
              => ~f_out.dropped
        /\ (\E k \in 1..Len(f_existing) : f_existing[k] = f_title) => f_out.dropped
        /\ f_existing = <<>> => ~f_out.dropped

\* C23 witness: a candidate whose highest ratio to the existing titles is
\* exactly 0.9 was checked and kept
C23_Witness ==
    /\ f_out # NotApplied
    /\ f_title = T_TEN
    /\ f_existing = <<T_REMIX, T_TEN_LAST>>
    /\ RatioIs90(T_TEN, T_TEN_LAST)
    /\ ~f_out.dropped

----------------------------------------------------------------------------
\* the rows among the first n stored that have source name S and title t
RowsUnder(n, S, t) ==
    { r \in 1..n : posts[r].newsletter = S /\ posts[r].title = t }
\* the places of title t in the list that call i read
PlacesOf(i, t) ==
    { k \in 1..Len(task[i].existing_titles) : task[i].existing_titles[k] = t }
\* the titles stored, and the titles read by call i
TitlesStored == { posts[r].title : r \in Rows }
TitlesRead(i) == { task[i].existing_titles[k] : k \in 1..Len(task[i].existing_titles) }
\* the title of the entry was stored under another source name when call i
\* read the titles of its own source
StoredUnderOtherName(i, entry) ==
    \E r \in 1..task[i].read_rows[1] :
        /\ posts[r].title = strip(entry.title)
        /\ posts[r].newsletter # task[i].newsletter
\* no title that was stored under the source name of call i when it read
\* them is more than 0.9 similar to the title of the entry
NoneSimilarUnderOwnName(i, entry) ==
    \A r \in 1..task[i].read_rows[1] :
        posts[r].newsletter = task[i].newsletter =>
            ~RatioAbove90(strip(entry.title), posts[r].title)

\* C24: the list of titles a call compares with is exactly the titles of the
\* rows stored under the call's own source name (one per row); so an entry
\* whose title equals a title stored under a different source name, and is
\* not similar to one stored under its own, passes the filter: it is handed
\* to the Store and (root) its url is stored when the call has returned.
C24_SameSourceOnly ==
    \A i \in Tasks :
        task[i].read_rows # None =>
            /\ \A t \in TitlesStored \cup TitlesRead(i) :
                  Cardinality(PlacesOf(i, t))
                      = Cardinality(RowsUnder(task[i].read_rows[1], task[i].newsletter, t))
            /\ (task[i].pc = "done" /\ task[i].result # None) =>
                  \A e \in 1..Len(FeedOf(i).entries) :
                      LET entry == FeedOf(i).entries[e]
                      IN  ( /\ HasTitleAndLink(entry)
                            /\ StoredUnderOtherName(i, entry)
                            /\ NoneSimilarUnderOwnName(i, entry) )
                          => /\ \E h \in 1..Len(task[i].handed) :
                                   /\ task[i].handed[h].url = strip(entry.link)
                                   /\ task[i].handed[h].title = strip(entry.title)
                             /\ impl = "root" => strip(entry.link) \in StoredUrls

\* C24 witness: a root call has stored an entry under its source name whose
\* title was already stored under another source name when it read its list
C24_Witness ==
    /\ impl = "root"
    /\ \E i \in Tasks :
          /\ task[i].pc = "done" /\ task[i].result # None
          /\ \E e \in 1..Len(FeedOf(i).entries) :
                LET entry == FeedOf(i).entries[e]
                IN  /\ HasTitleAndLink(entry)
                    /\ StoredUnderOtherName(i, entry)
                    /\ \E r \in Rows :
                          /\ posts[r].url = strip(entry.link)
                          /\ posts[r].title = strip(entry.title)
                          /\ posts[r].newsletter = task[i].newsletter

----------------------------------------------------------------------------
\* the feed parser reported the feed of call i as malformed
Malformed(i) == ~FeedOf(i).raises /\ FeedOf(i).bozo

\* C25: when the feed parser reports a malformed feed (bozo), process_feed
\* returns None and leaves the Store alone: the call reads no titles, hands
\* no post to the Store and adds no row, whatever entries the parsed feed
\* has; and the step in which the call finds the feed malformed changes no
\* row.
C25_MalformedFeedNoInsert ==
    /\ [](\A i \in Tasks :
            (Malformed(i) /\ task[i].pc # "queued") =>
                /\ task[i].pc = "done"
                /\ task[i].result = None
                /\ task[i].read_rows = None
                /\ task[i].handed = <<>>
                /\ task[i].added = 0)
    /\ [][\A i \in Tasks :
            (Malformed(i) /\ task[i].pc = "queued" /\ i \in DOMAIN task'
                /\ task'[i].pc # "queued") => posts' = posts]_vars

\* C25 witness: a call on a malformed feed that has an entry with title and
\* link has returned, the url of the entry is not stored, and rows of other
\* sources are
C25_Witness ==
    /\ posts # <<>>
    /\ \E i \in Tasks :
          /\ Malformed(i)
          /\ task[i].pc = "done"
          /\ \E e \in 1..Len(FeedOf(i).entries) :
                /\ HasTitleAndLink(FeedOf(i).entries[e])
                /\ strip(FeedOf(i).entries[e].link) \notin StoredUrls

----------------------------------------------------------------------------
\* the source name of call i: the title of the feed metadata when it has
\* one, otherwise the url as listed
ExpectedName(i) ==
    IF "title" \in DOMAIN FeedOf(i).feed THEN FeedOf(i).feed.title ELSE urls[i]
\* the author of a post of call i made from the entry
ExpectedAuthor(i, entry) ==
    IF "author" \in DOMAIN entry /\ entry.author # <<>> THEN entry.author
    ELSE IF "author" \in DOMAIN FeedOf(i).feed /\ FeedOf(i).feed.author # <<>>
           THEN FeedOf(i).feed.author
           ELSE ExpectedName(i)
\* the post was made from the entry
MadeFrom(post, entry) ==
    /\ HasTitleAndLink(entry)
    /\ post.url = strip(entry.link)
    /\ post.title = strip(entry.title)

\* C26: every post handed to the Store, and so every row persisted, has as
\* author the entry's author when that is non-empty, otherwise the feed-level
\* author when that is non-empty, otherwise the source name; and its source
\* name is the feed's title when the feed metadata has one, otherwise the
\* source url as listed.
C26_AuthorAndSourceName ==
    /\ \A i \in Tasks : \A h \in 1..Len(task[i].handed) :
          LET post == task[i].handed[h]
          IN  /\ post.newsletter = ExpectedName(i)
              /\ \E e \in 1..Len(FeedOf(i).entries) : MadeFrom(post, FeedOf(i).entries[e])
              /\ \A e \in 1..Len(FeedOf(i).entries) :
                    MadeFrom(post, FeedOf(i).entries[e]) =>
                        post.author = ExpectedAuthor(i, FeedOf(i).entries[e])
    /\ \A r \in (run.rows + 1)..Len(posts) :
          \E i \in Tasks : \E h \in 1..Len(task[i].handed) : task[i].handed[h] = posts[r]

\* C26 witness: rows are stored whose author is the entry's author, the
\* feed-level author (the entry's author is empty) and the source name, the
\* latter being the url of a feed without a title
C26_Witness ==
    /\ \E r \in Rows : posts[r].url = <<"http://x.com/1">> /\ posts[r].author = <<"ann">>
    /\ \E r \in Rows : posts[r].url = <<"http://x.com/2">> /\ posts[r].author = <<"Sam">>
    /\ \E r \in Rows : /\ posts[r].url = <<"http://x.com/6">>
                       /\ posts[r].author = U4 /\ posts[r].newsletter = U4

----------------------------------------------------------------------------
(* Connection handling: get_connection of src/fetch_to_db.py (52-59) and   *)
(* connection of src/src/fetch_to_db.py (48-55), as the main thread and    *)
(* the workers of the pool go through them, one statement at a time.       *)
(* Thread 0 is the main thread, which constructs the Store (schema init)   *)
(* before it starts the pool; threads 1..MAX_WORKERS are the workers.      *)
(*   pc: "construct" -> op -> "pool"                       (main thread)   *)
(*       "idle" -> "fetch" -> op titles -> "filter" -> op insert -> "idle" *)
(*   inside an op:  "connect" -> "body" -> "finally"                       *)
(* holds is the number of connections the thread has opened and not        *)
(* closed; last tells how the thread's last operation ended.               *)

Threads == 0..MAX_WORKERS
Workers == 1..MAX_WORKERS

ConnThread(pc) ==
    [pc |-> pc, op |-> "none", exc |-> FALSE, holds |-> 0, last |-> "none"]

\* with self.get_connection() as conn:  is reached for operation op
begin_op(th, op) == [th EXCEPT !.pc = "connect", !.op = op, !.exc = FALSE]

\* where a thread is once an operation returned
after_return(t, th) ==
    [th EXCEPT !.op = "none", !.last = "returned",
               !.pc = CASE th.op = "init" -> "pool"
                        [] th.op \in {"titles", "flush"} -> "filter"
                        [] OTHER -> "idle"]

\* where a thread is once an operation raised: process_feed catches the
\* exception and returns None; in the main thread nothing catches it
after_raise(t, th) ==
    [th EXCEPT !.op = "none", !.exc = FALSE, !.last = "raised",
               !.pc = IF t = 0 THEN "crashed" ELSE "idle"]

ConnInit ==
    /\ conn_th = [t \in Threads |-> IF t = 0 THEN ConnThread("construct")
                                             ELSE ConnThread("idle")]
    /\ conn_open = 0
    /\ impl \in {"root", "pkg"}
    /\ feed_list = NoFile /\ posts = <<>> /\ main_pc = "none"
    /\ exit_status = -1 /\ urls = <<>> /\ task = <<>> /\ faults = 0 /\ run = FirstRun
    /\ d_entry = <<>> /\ d_out = NotApplied
    /\ s_db = <<>> /\ s_batch = <<>> /\ s_out = NotApplied
    /\ AnalyticsIdle
    /\ FilterIdle /\ LoaderIdle

ConnFrame ==
    UNCHANGED <<pipeline_vars, date_vars, store_vars, analytics_vars, filter_vars, dm>>

\* db_manager = DatabaseManager(...) / db = Database(...): _init_db, _initialize
store_construct ==
    /\ conn_th[0].pc = "construct"
    /\ conn_th' = [conn_th EXCEPT ![0] = begin_op(@, "init")]
    /\ UNCHANGED conn_open
    /\ ConnFrame

\* a worker takes a url of the queue: process_feed(url) begins
worker_start(t) ==
    /\ t \in Workers
    /\ conn_th[0].pc = "pool"
    /\ conn_th[t].pc = "idle"
    /\ conn_th' = [conn_th EXCEPT ![t].pc = "fetch"]
    /\ UNCHANGED conn_open
    /\ ConnFrame

\* feedparser.parse and the bozo test: the call returns None (exception or
\* malformed feed), or goes on to read the titles of the source
worker_fetch(t) ==
    /\ t \in Workers
    /\ conn_th[t].pc = "fetch"
    /\ \/ conn_th' = [conn_th EXCEPT ![t].pc = "idle"]
       \/ conn_th' = [conn_th EXCEPT ![t] = begin_op(@, "titles")]
    /\ UNCHANGED conn_open
    /\ ConnFrame

\* the entries are made into posts and filtered; root flushes a full batch
\* inside the loop; then the final insert, which returns 0 without a
\* connection when the batch is empty
worker_filter(t) ==
    /\ t \in Workers
    /\ conn_th[t].pc = "filter"
    /\ \/ impl = "root" /\ conn_th' = [conn_th EXCEPT ![t] = begin_op(@, "flush")]
       \/ conn_th' = [conn_th EXCEPT ![t] = begin_op(@, "final")]
       \/ conn_th' = [conn_th EXCEPT ![t].pc = "idle"]
    /\ UNCHANGED conn_open
    /\ ConnFrame

\* conn = sqlite3.connect(self.db_file), before the try: the connection is
\* open, or connect raised and there is none
get_connection_enter(t) ==
    /\ t \in Threads
    /\ conn_th[t].pc = "connect"
    /\ \/ /\ conn_th' = [conn_th EXCEPT ![t].pc = "body", ![t].holds = @ + 1]
          /\ conn_open' = conn_open + 1
       \/ /\ conn_th' = [conn_th EXCEPT ![t] = after_raise(t, @)]
          /\ UNCHANGED conn_open
    /\ ConnFrame

\* yield conn: the statements of the operation run, and return or raise
with_body(t) ==
    /\ t \in Threads
    /\ conn_th[t].pc = "body"
    /\ \E raised \in BOOLEAN :
          conn_th' = [conn_th EXCEPT ![t].pc = "finally", ![t].exc = raised]
    /\ UNCHANGED conn_open
    /\ ConnFrame

\* mutant of get_connection_exit: conn.close() after the yield, without
\* try/finally
get_connection_exit_no_finally(t) ==
    /\ t \in Threads
    /\ conn_th[t].pc = "finally"
    /\ IF conn_th[t].exc
         THEN /\ conn_th' = [conn_th EXCEPT ![t] = after_raise(t, @)]
              /\ UNCHANGED conn_open
         ELSE /\ conn_th' = [conn_th EXCEPT
                    ![t] = after_return(t, [@ EXCEPT !.holds = @ - 1])]
              /\ conn_open' = conn_open - 1
    /\ ConnFrame

\* finally: conn.close(), then the operation returns or the exception goes on
get_connection_exit(t) ==
    /\ t \in Threads
    /\ conn_th[t].pc = "finally"
    /\ conn_open' = conn_open - 1
    /\ conn_th' = [conn_th EXCEPT
          ![t] = IF conn_th[t].exc
                   THEN after_raise(t, [@ EXCEPT !.holds = @ - 1])
                   ELSE after_return(t, [@ EXCEPT !.holds = @ - 1])]
    /\ ConnFrame

ConnNext ==
    \/ store_construct
    \/ \E t \in Workers : worker_start(t)
    \/ \E t \in Workers : worker_fetch(t)
    \/ \E t \in Workers : worker_filter(t)
    \/ \E t \in Threads : get_connection_enter(t)
    \/ \E t \in Threads : with_body(t)
    \/ \E t \in Threads : get_connection_exit(t)

SpecConn == ConnInit /\ [][ConnNext]_vars

\* the thread is inside a Store operation, between connect and close
InsideOperation(t) == conn_th[t].pc \in {"body", "finally"}

\* C27: every connection a Store operation (schema init, batch insert,
\* titles query) opens is closed when the operation returns or raises: a
\* thread holds one connection while it is inside an operation and none
\* otherwise, so a worker that is fetching, parsing or filtering a feed (or
\* is idle) holds no connection, and the number of open connections is the
\* number of threads inside an operation, never more than the number of
\* workers.
C27_ConnectionPerOperation ==
    /\ \A t \in Threads :
          conn_th[t].holds = IF InsideOperation(t) THEN 1 ELSE 0
    /\ \A t \in Workers :
          conn_th[t].pc \in {"idle", "fetch", "filter", "connect"} => conn_th[t].holds = 0
    /\ conn_open = Cardinality({ t \in Threads : InsideOperation(t) })
    /\ conn_open <= MAX_WORKERS

\* C27 witness: a worker is idle after an operation of its call raised, and
\* another is filtering after its titles query returned; no connection is
\* open
C27_Witness ==
    /\ conn_th[0].pc = "pool"
    /\ \E t \in Workers : conn_th[t].pc = "idle" /\ conn_th[t].last = "raised"
    /\ \E t \in Workers : conn_th[t].pc = "filter" /\ conn_th[t].last = "returned"
    /\ conn_open = 0

----------------------------------------------------------------------------
\* C28 (as claimed): after any sequence of load_data, fit_kmeans and
\* refit_with_n_clusters calls, get_cluster_sizes() either raises ValueError
\* (model not fitted) or returns sizes that sum to the number of rows of the
\* data most recently loaded.
C28_SizesOfLoadedDataOrValueError ==
    LET sizes == get_cluster_sizes(analyzer)
    IN  \/ sizes.raises = "ValueError"
        \/ /\ sizes.raises = "none"
           /\ SumOver(sizes.value, DOMAIN sizes.value) = Len(analyzer.df[1].rows)

----------------------------------------------------------------------------
(* DataManager of src/src/data/loader.py: _check_database_has_data and     *)
(* _auto_initialize_if_needed, which uses DatabaseManager of               *)
(* src/src/db_setup.py and Database and FeedProcessor of                   *)
(* src/src/fetch_to_db.py (pkg). dm holds the database file config.DB_FILE *)
(* (whether it exists, its schema and committed rows), the file            *)
(* data/newsletters.txt and the history of the calls made.                 *)

\* _auto_initialize_if_needed is called at most this many times
MaxLoads == 2

\* Path(config.DB_FILE).exists(), then SELECT COUNT( * ) FROM posts; any
\* exception (no table posts) gives False
_check_database_has_data(d) ==
    IF ~d.exists THEN FALSE
    ELSE IF "posts" \notin d.file.master THEN FALSE
    ELSE count_rows(d.file.rows) > 0

\* db_setup.DatabaseManager.init_database: executescript(self.schema)
init_database(file) ==
    create_index_if_not_exists(
      create_index_if_not_exists(
        create_index_if_not_exists(
          create_index_if_not_exists(create_table_if_not_exists(file), "idx_posts_url"),
          "idx_posts_newsletter"),
        "idx_posts_published"),
      "idx_posts_author")

\* FeedProcessor.process_feed (pkg) as one call on the rows db: the rows
\* afterwards and the return value (None or <<n>>)
pkg_process_feed(db, url, now) ==
    LET feed == feedparser_parse(url)
    IN  IF feed.raises \/ feed.bozo THEN [db |-> db, ret |-> None]
        ELSE LET newsletter == entry_get(feed.feed, "title", url)
                 existing_titles == get_titles(db, newsletter)
                 ps == _process_entries(feed.entries, feed, newsletter, existing_titles,
                                        [k \in 1..Len(feed.entries) |-> now])
                 r == insert_posts(db, ps)
             IN  [db |-> r.db, ret |-> <<r.ret>>]

\* for url in urls: inserted = processor.process_feed(url);
\*                  if inserted: total_inserted += inserted
RECURSIVE fetch_urls(_, _, _)
fetch_urls(db, us, now) ==
    IF us = <<>> THEN [db |-> db, total_inserted |-> 0, fetched |-> 0]
    ELSE LET one == pkg_process_feed(db, Head(us), now)
             rest == fetch_urls(one.db, Tail(us), now)
         IN  [db |-> rest.db,
              total_inserted |-> (IF one.ret # None THEN one.ret[1] ELSE 0)
                                   + rest.total_inserted,
              fetched |-> 1 + rest.fetched]

\* what a call leaves and returns
LoadCall(d, ret, initialized, fetched, total_inserted) ==
    [d EXCEPT !.calls = Append(@, [ret |-> ret, initialized |-> initialized,
                                   fetched |-> fetched,
                                   total_inserted |-> total_inserted])]

\* DataManager._auto_initialize_if_needed; init_ok says whether
\* init_database returns True
_auto_initialize_if_needed(d, init_ok, now) ==
    IF _check_database_has_data(d) THEN LoadCall(d, TRUE, FALSE, 0, 0)
    ELSE IF ~init_ok THEN LoadCall([d EXCEPT !.exists = TRUE], FALSE, FALSE, 0, 0)
    ELSE LET made == [d EXCEPT !.exists = TRUE, !.file = init_database(@)]
         IN  IF made.list = NoFile THEN LoadCall(made, TRUE, TRUE, 0, 0)
             ELSE IF read_urls(made.list.lines) = <<>>
                    THEN LoadCall(made, TRUE, TRUE, 0, 0)
             ELSE LET opened == [made EXCEPT !.file = _initialize(@)]
                      r == fetch_urls(opened.file.rows, read_urls(made.list.lines), now)
                  IN  LoadCall([opened EXCEPT !.file.rows = r.db],
                               TRUE, TRUE, r.fetched, r.total_inserted)

\* a row of another source, stored before (by a run of the root pipeline)
STORED_ROW ==
    [newsletter |-> <<"Other">>, title |-> T_REMIX, url |-> <<"http://x.com/7">>,
     author |-> <<"dan">>, published |-> strftime(UTC_JAN1)]

LoaderFiles ==
    { [exists |-> FALSE, file |-> DbFile({}, <<>>)],
      [exists |-> TRUE, file |-> DbFile({}, <<>>)],
      [exists |-> TRUE, file |-> _init_db(DbFile({}, <<>>))],
      [exists |-> TRUE, file |-> [_init_db(DbFile({}, <<>>)) EXCEPT !.rows = <<STORED_ROW>>]] }

LoaderInit ==
    /\ dm \in { [exists |-> f.exists, file |-> f.file, list |-> l, calls |-> <<>>] :
                  f \in LoaderFiles,
                  l \in {File(lines) : lines \in FeedLists \cup {<< <<"\n">> >>}}
                        \cup {NoFile} }
    /\ impl = "none" /\ feed_list = NoFile /\ posts = <<>> /\ main_pc = "none"
    /\ exit_status = -1 /\ urls = <<>> /\ task = <<>> /\ faults = 0 /\ run = FirstRun
    /\ d_entry = <<>> /\ d_out = NotApplied
    /\ s_db = <<>> /\ s_batch = <<>> /\ s_out = NotApplied
    /\ AnalyticsIdle
    /\ FilterIdle /\ ConnIdle

\* load_data calls _self._auto_initialize_if_needed()
auto_initialize ==
    /\ dm # NotApplied
    /\ Len(dm.calls) < MaxLoads
    /\ \E init_ok \in BOOLEAN, k \in 1..Len(Clock) :
          dm' = _auto_initialize_if_needed(dm, init_ok, Clock[k])
    /\ UNCHANGED <<pipeline_vars, date_vars, store_vars, analytics_vars, filter_vars,
                   conn_vars>>

LoaderNext == auto_initialize

SpecLoader == LoaderInit /\ [][LoaderNext]_vars

\* C29 (as claimed): after a call of _auto_initialize_if_needed in which the
\* feeds yielded at least one inserted post (total_inserted > 0),
\* _check_database_has_data() returns True, and every later call returns True
\* without initializing the schema or fetching a feed.
C29_FetchesAtMostOnce ==
    dm # NotApplied =>
        \A k \in 1..Len(dm.calls) :
            dm.calls[k].total_inserted > 0 =>
                /\ _check_database_has_data(dm)
                /\ \A j \in (k + 1)..Len(dm.calls) :
                      /\ dm.calls[j].ret = TRUE
                      /\ ~dm.calls[j].initialized
                      /\ dm.calls[j].fetched = 0

----------------------------------------------------------------------------
\* the feed of call i was fetched and parsed
Parsed(i) == ~FeedOf(i).raises /\ ~FeedOf(i).bozo

====
